---------------------------- MODULE Spec2Model ----------------------------
(***************************************************************************)
(* FragAudit: the metrics role classifier (src/src/metrics/role_classifier *)
(* .py) and the score engine (src/src/metrics/scoring.py).                 *)
(*                                                                         *)
(* Numbers.  The code computes in Python floats.  The model computes the   *)
(* same quantities exactly, as integers over a fixed denominator or as     *)
(* fractions [num, den]; int(x) of a non-negative x is floor division.     *)
(* Fractions 0..1 that the code receives as floats (kast_percentage, kdr,  *)
(* survival_rate, hs_percent, kpr) are carried in hundredths.              *)
(* The input sets below are chosen so that on every input the exact value  *)
(* and the float the code computes truncate to the same integer.  Off      *)
(* these sets float rounding can lower a truncated result by one: the      *)
(* counter-strafe multiplier at 71, 72 and 73 (0.7999999999999999 at 73),  *)
(* the utility score at util_dmg 114, 116 and 175, the weighted rating at  *)
(* aim = 6, positioning = 0, impact = 1, untradeable_deaths = 1.           *)
(*                                                                         *)
(* A roster is the dict `players`: a sequence of feature records in the    *)
(* dict's iteration (insertion) order; a player's id is its position.      *)
(***************************************************************************)
EXTENDS Integers, Sequences, FiniteSets, TLC

VARIABLES
    players,          \* classify_roles: the argument, a sequence of PlayerFeatures
    pc,               \* classify_roles: "call" before the call, "done" after it
    role_candidates,  \* classify_roles: the working map pid -> [role, score] at return
    phase1,           \* the working map as Phase 1 left it (line 127), kept for reference
    teams,            \* classify_roles: the team partition used by Phase 2
    results,          \* classify_roles: the returned mapping pid -> role
    fn,               \* ScoreEngine: the function called
    args,             \* ScoreEngine: its arguments
    ret,              \* ScoreEngine: its return value, Pending before it returns
    demo,             \* the ParsedDemo handed to TimelineBuilder and to roles.classify_roles
    tickrate,         \* TimelineBuilder.tickrate
    round_timelines,  \* TimelineBuilder.round_timelines
    all_assignments   \* roles.classify_roles: the returned list, Pending before it returns

roleVars == <<players, pc, role_candidates, phase1, teams, results>>

scoreVars == <<fn, args, ret>>

demoVars == <<demo, tickrate, round_timelines, all_assignments>>

vars == <<players, pc, role_candidates, phase1, teams, results, fn, args, ret,
          demo, tickrate, round_timelines, all_assignments>>

-----------------------------------------------------------------------------
(* Bounds of the model *)

MaxPlayers == 4

(* rosters of the rule-ladder specification *)
MaxLadderPlayers == 3
MaxEntryPlayers == 5
MaxTeamPlayers == 4

(* ScoreEngine inputs *)
MaxCounterStrafe == 100

MaxRateSteps == 10

MaxBlinded == 11

MaxDamageSteps == 11

MaxFlashes == 16

MaxCount == 1

MaxUntradeable == 2

MaxOpeningKills == 1

-----------------------------------------------------------------------------
(* Arithmetic helpers *)

Max(a, b) == IF a >= b THEN a ELSE b

Min(a, b) == IF a <= b THEN a ELSE b

Frac(n, d) == [num |-> n, den |-> d]

FracGT(a, b) == a.num * b.den > b.num * a.den

FracGE(a, b) == a.num * b.den >= b.num * a.den

FracEQ(a, b) == a.num * b.den = b.num * a.den

Zero == Frac(0, 1)

-----------------------------------------------------------------------------
(* role_classifier.py: constants *)

MAX_AWPERS_PER_TEAM == 1

MAX_ENTRIES_PER_TEAM == 2

Roles == {"AWPer", "Entry", "Support", "Lurker", "Rotator", "Trader", "SiteAnchor"}

TopEntryCount == 4

(* an earlier revision's demotion target *)
DemotedRoleAnchor == "Anchor"

DemotedRole == "Trader"

-----------------------------------------------------------------------------
(* list.sort(key=lambda x: x[1], reverse=True): a stable sort, descending  *)
(* by score; entries with equal scores keep their original order.          *)
(* Entries are records [pid, score] with score a fraction.                 *)

(* an insertion that puts x before the entries of equal score *)
RECURSIVE InsertDesc_before_equal(_, _)
InsertDesc_before_equal(x, s) ==
    IF s = <<>> THEN <<x>>
    ELSE IF FracGE(x.score, Head(s).score) THEN <<x>> \o s
    ELSE <<Head(s)>> \o InsertDesc_before_equal(x, Tail(s))

RECURSIVE InsertDesc(_, _)
InsertDesc(x, s) ==
    IF s = <<>> THEN <<x>>
    ELSE IF FracGT(x.score, Head(s).score) THEN <<x>> \o s
    ELSE <<Head(s)>> \o InsertDesc(x, Tail(s))

RECURSIVE SortDesc(_)
SortDesc(s) ==
    IF s = <<>> THEN <<>>
    ELSE InsertDesc(s[Len(s)], SortDesc(SubSeq(s, 1, Len(s) - 1)))

(* s[k:] and s[:k] *)
SliceFrom(s, k) == SubSeq(s, Min(k, Len(s)) + 1, Len(s))

SliceTo(s, k) == SubSeq(s, 1, Min(k, Len(s)))

Pids(ps) == 1..Len(ps)

(* The list comprehension [x for pid in ... if keep(pid)] in dict order.   *)
RECURSIVE PidsWhere(_, _)
PidsWhere(n, S) ==
    IF n = 0 THEN <<>>
    ELSE IF n \in S THEN Append(PidsWhere(n - 1, S), n) ELSE PidsWhere(n - 1, S)

-----------------------------------------------------------------------------
(* classify_roles, lines 51-58 *)

total_flashes(ps) ==
    LET RECURSIVE Sum(_)
        Sum(n) == IF n = 0 THEN 0 ELSE Sum(n - 1) + ps[n].flashes_thrown
    IN Sum(Len(ps))

entry_attempts(p) == p.entry_kills + p.entry_deaths

entry_data(ps) == [i \in Pids(ps) |-> [pid |-> i, score |-> Frac(entry_attempts(ps[i]), 1)]]

(* one more than entry_data[:4] *)
top_entry_pids_top_five(ps) ==
    LET top == SliceTo(SortDesc(entry_data(ps)), TopEntryCount + 1)
    IN {top[i].pid : i \in 1..Len(top)}

(* the four slots given to the players who are not AWPer candidates *)
top_entry_pids_skipping_awpers(ps) ==
    LET others == SelectSeq(entry_data(ps),
                            LAMBDA e : ~(/\ 4 * ps[e.pid].awp_kills >= Max(1, ps[e.pid].kills)
                                         /\ ps[e.pid].awp_kills >= 2))
        top == SliceTo(SortDesc(others), TopEntryCount)
    IN {top[i].pid : i \in 1..Len(top)}

top_entry_pids(ps) ==
    LET top == SliceTo(SortDesc(entry_data(ps)), TopEntryCount)
    IN {top[i].pid : i \in 1..Len(top)}

-----------------------------------------------------------------------------
(* classify_roles, lines 67-74: the divisors of the three per-player       *)
(* ratios (awp_ratio, entry_success_rate, tradeable_ratio), all computed   *)
(* for every player before the ladder; line 53 divides by count.           *)

(* the divisors without their max(1, x) guard *)
divisors_unguarded(p) == {p.kills, entry_attempts(p), p.deaths}

divisors(p) == {Max(1, p.kills), Max(1, entry_attempts(p)), Max(1, p.deaths)}

roster_divisors(ps) == {Len(ps)} \cup UNION {divisors(ps[pid]) : pid \in Pids(ps)}

-----------------------------------------------------------------------------
(* classify_roles, lines 63-127: the rule ladder for one player *)

(* the ratio test made strict: awp_ratio > 0.25 *)
awp_rule_strict(p) == 4 * p.awp_kills > Max(1, p.kills) /\ p.awp_kills >= 2

awp_rule(p) == 4 * p.awp_kills >= Max(1, p.kills) /\ p.awp_kills >= 2

awp_score(p) == Frac(p.awp_kills * p.awp_kills, Max(1, p.kills))

entry_eligible(top_pids, p, pid) == pid \in top_pids /\ entry_attempts(p) >= 3

(* the gate before it was tightened: no KAST test *)
entry_gate_without_kast(p) ==
    \/ 100 * p.entry_kills >= 35 * Max(1, entry_attempts(p))
    \/ p.entry_kills >= 2

(* entry_success_rate >= 0.35 or entry_kills >= 2, and kast_pct >= 0.55 *)
entry_gate(p) ==
    /\ \/ 100 * p.entry_kills >= 35 * Max(1, entry_attempts(p))
       \/ p.entry_kills >= 2
    /\ p.kast_percentage >= 55

(* tradeable_ratio >= 0.4 *)
trade_bonus2(p) == IF 10 * p.tradeable_deaths >= 4 * Max(1, p.deaths) THEN 3 ELSE 0

flash_bonus2(p) == IF p.flashes_thrown >= 2 THEN 2 ELSE 1

(* entry_success_rate * entry_kills + trade_bonus + flash_bonus *)
entry_score(p) ==
    LET att == Max(1, entry_attempts(p))
    IN Frac(2 * p.entry_kills * p.entry_kills + att * (trade_bonus2(p) + flash_bonus2(p)),
            2 * att)

(* flashes_thrown > avg_flashes or enemies_blinded >= 3 *)
support_rule(total, count, p) ==
    \/ p.flashes_thrown * count > total
    \/ p.enemies_blinded >= 3

lurker_rule(p) == p.avg_teammate_dist > 650

rotator_rule(p) == p.swing_kills >= 2 /\ p.raw_impact >= 30

(* tradeable_ratio > 0.35 *)
trader_rule(p) == 100 * p.tradeable_deaths > 35 * Max(1, p.deaths)

Candidate(r, s) == [role |-> r, score |-> s]

(* the ladder with the Lurker rule tried before the Support rule *)
Phase1Candidate_lurker_first(p, pid, total, count, top_pids) ==
    IF awp_rule(p) THEN Candidate("AWPer", awp_score(p))
    ELSE IF entry_eligible(top_pids, p, pid) THEN
        IF entry_gate(p) THEN Candidate("Entry", entry_score(p))
        ELSE Candidate("Trader", Zero)
    ELSE IF lurker_rule(p) THEN Candidate("Lurker", Frac(p.avg_teammate_dist, 1))
    ELSE IF support_rule(total, count, p) THEN
        Candidate("Support", Frac(p.flashes_thrown + 2 * p.enemies_blinded, 1))
    ELSE IF rotator_rule(p) THEN Candidate("Rotator", Frac(10 * p.swing_kills, 1))
    ELSE IF trader_rule(p) THEN
        Candidate("Trader", Frac(10 * p.tradeable_deaths, Max(1, p.deaths)))
    ELSE Candidate("SiteAnchor", Zero)

(* total and count give avg_flashes = total / count (lines 52-53); top_pids *)
(* is top_entry_pids (line 58): both are computed once, before the loop    *)
Phase1Candidate(p, pid, total, count, top_pids) ==
    IF awp_rule(p) THEN Candidate("AWPer", awp_score(p))
    ELSE IF entry_eligible(top_pids, p, pid) THEN
        IF entry_gate(p) THEN Candidate("Entry", entry_score(p))
        ELSE Candidate("Trader", Zero)
    ELSE IF support_rule(total, count, p) THEN
        Candidate("Support", Frac(p.flashes_thrown + 2 * p.enemies_blinded, 1))
    ELSE IF lurker_rule(p) THEN Candidate("Lurker", Frac(p.avg_teammate_dist, 1))
    ELSE IF rotator_rule(p) THEN Candidate("Rotator", Frac(10 * p.swing_kills, 1))
    ELSE IF trader_rule(p) THEN
        Candidate("Trader", Frac(10 * p.tradeable_deaths, Max(1, p.deaths)))
    ELSE Candidate("SiteAnchor", Zero)

Phase1Candidates(ps) ==
    LET total == total_flashes(ps)
        count == Len(ps)
        top_pids == top_entry_pids(ps)
    IN [pid \in Pids(ps) |-> Phase1Candidate(ps[pid], pid, total, count, top_pids)]

-----------------------------------------------------------------------------
(* classify_roles, lines 129-145: the team partition.  `teams` is the dict *)
(* in insertion order: a sequence of records [name, pids].                 *)

team_of(p) == IF p.team_id = "" THEN "unknown" ELSE p.team_id

RECURSIVE GroupByTeam(_, _)
GroupByTeam(ps, n) ==
    IF n = 0 THEN <<>>
    ELSE LET prev == GroupByTeam(ps, n - 1)
             team == team_of(ps[n])
         IN IF \E k \in 1..Len(prev) : prev[k].name = team
            THEN [k \in 1..Len(prev) |->
                    IF prev[k].name = team
                    THEN [prev[k] EXCEPT !.pids = @ \cup {n}]
                    ELSE prev[k]]
            ELSE Append(prev, [name |-> team, pids |-> {n}])

(* the two slices sharing the player at index team_size *)
FallbackSplit_overlapping(ps) ==
    LET team_size == Len(ps) \div 2
    IN << [name |-> "team1", pids |-> 1..Min(team_size + 1, Len(ps))],
          [name |-> "team2", pids |-> (team_size + 1)..Len(ps)] >>

FallbackSplit(ps) ==
    LET team_size == Len(ps) \div 2
    IN << [name |-> "team1", pids |-> 1..team_size],
          [name |-> "team2", pids |-> (team_size + 1)..Len(ps)] >>

(* the fallback taken only when there is at most one group *)
TeamPartition_keeping_unknown(ps) ==
    LET grouped == GroupByTeam(ps, Len(ps))
    IN IF Len(grouped) <= 1 THEN FallbackSplit(ps) ELSE grouped

TeamPartition(ps) ==
    LET grouped == GroupByTeam(ps, Len(ps))
    IN IF Len(grouped) <= 1 \/ \E k \in 1..Len(grouped) : grouped[k].name = "unknown"
       THEN FallbackSplit(ps)
       ELSE grouped

-----------------------------------------------------------------------------
(* classify_roles, lines 147-163: quota enforcement *)

(* the comprehension without its role test: every player of the team *)
quota_candidates_any_role(rc, role_name, team_pids) ==
    LET keep == PidsWhere(Len(rc), {pid \in DOMAIN rc : pid \in team_pids})
    IN [i \in 1..Len(keep) |-> [pid |-> keep[i], score |-> rc[keep[i]].score]]

quota_candidates(rc, role_name, team_pids) ==
    LET keep == PidsWhere(Len(rc), {pid \in DOMAIN rc :
                                      rc[pid].role = role_name /\ pid \in team_pids})
    IN [i \in 1..Len(keep) |-> [pid |-> keep[i], score |-> rc[keep[i]].score]]

(* the slice candidates[max_per_team + 1:] : one player too many is kept *)
apply_quota_off_by_one(rc, role_name, max_per_team, team_pids) ==
    LET candidates == quota_candidates(rc, role_name, team_pids)
        excess == SliceFrom(SortDesc(candidates), max_per_team + 1)
        demoted == {excess[i].pid : i \in 1..Len(excess)}
    IN IF Len(candidates) <= max_per_team THEN rc
       ELSE [pid \in DOMAIN rc |->
               IF pid \in demoted THEN Candidate(DemotedRole, Zero) ELSE rc[pid]]

(* the sort without reverse=True: the lowest scorers are kept *)
apply_quota_ascending(rc, role_name, max_per_team, team_pids) ==
    LET candidates == quota_candidates(rc, role_name, team_pids)
        sorted == SortDesc(candidates)
        excess == SliceTo(sorted, Len(sorted) - max_per_team)
        demoted == {excess[i].pid : i \in 1..Len(excess)}
    IN IF Len(candidates) <= max_per_team THEN rc
       ELSE [pid \in DOMAIN rc |->
               IF pid \in demoted THEN Candidate(DemotedRole, Zero) ELSE rc[pid]]

apply_quota_per_team(rc, role_name, max_per_team, team_pids) ==
    LET candidates == quota_candidates(rc, role_name, team_pids)
        excess == SliceFrom(SortDesc(candidates), max_per_team)
        demoted == {excess[i].pid : i \in 1..Len(excess)}
    IN IF Len(candidates) <= max_per_team THEN rc
       ELSE [pid \in DOMAIN rc |->
               IF pid \in demoted THEN Candidate(DemotedRole, Zero) ELSE rc[pid]]

RECURSIVE ApplyQuotas(_, _, _)
ApplyQuotas(rc, tms, k) ==
    IF k > Len(tms) THEN rc
    ELSE LET afterAwp == apply_quota_per_team(rc, "AWPer", MAX_AWPERS_PER_TEAM, tms[k].pids)
             afterEntry == apply_quota_per_team(afterAwp, "Entry", MAX_ENTRIES_PER_TEAM,
                                                tms[k].pids)
         IN ApplyQuotas(afterEntry, tms, k + 1)

ExtractRoles(rc) == [pid \in DOMAIN rc |-> rc[pid].role]

-----------------------------------------------------------------------------
(* scoring.py.  Units: a value carried as an integer names its denominator *)
(* in the operator's comment.                                              *)

(* the scaling rounded to the nearest integer instead of truncated *)
normalize_rounded(value, min_val, max_val) ==
    IF value <= min_val THEN 0
    ELSE IF value >= max_val THEN 100
    ELSE ((value - min_val) * 200 + (max_val - min_val)) \div (2 * (max_val - min_val))

(* _normalize, lines 14-18: int(((value - min_val) / (max_val - min_val)) * 100) *)
normalize(value, min_val, max_val) ==
    IF value <= min_val THEN 0
    ELSE IF value >= max_val THEN 100
    ELSE ((value - min_val) * 100) \div (max_val - min_val)

(* _get_cs_multiplier, lines 35-41: (cs_threshold, multiplier in 1/1000)   *)
breakpoints == << <<95, 1000>>, <<85, 920>>, <<75, 820>>, <<65, 720>>, <<60, 600>> >>

(* the interpolation taken from the band's upper multiplier *)
RECURSIVE interpolate_from_upper(_, _)
interpolate_from_upper(counter_strafe, i) ==
    IF i > Len(breakpoints) - 1 THEN 1000
    ELSE LET upper_cs == breakpoints[i][1]
             upper_mult == breakpoints[i][2]
             lower_cs == breakpoints[i + 1][1]
             lower_mult == breakpoints[i + 1][2]
         IN IF lower_cs <= counter_strafe /\ counter_strafe < upper_cs
            THEN upper_mult
                 + ((counter_strafe - lower_cs) * (upper_mult - lower_mult))
                   \div (upper_cs - lower_cs)
            ELSE interpolate_from_upper(counter_strafe, i + 1)

(* lines 52-60: the band search; 1.0 when no band holds counter_strafe     *)
RECURSIVE interpolate(_, _)
interpolate(counter_strafe, i) ==
    IF i > Len(breakpoints) - 1 THEN 1000
    ELSE LET upper_cs == breakpoints[i][1]
             upper_mult == breakpoints[i][2]
             lower_cs == breakpoints[i + 1][1]
             lower_mult == breakpoints[i + 1][2]
         IN IF lower_cs <= counter_strafe /\ counter_strafe < upper_cs
            THEN lower_mult
                 + ((counter_strafe - lower_cs) * (upper_mult - lower_mult))
                   \div (upper_cs - lower_cs)
            ELSE interpolate(counter_strafe, i + 1)

(* the low cut-off taken at the next breakpoint, 65 *)
get_cs_multiplier_cut_at_65(counter_strafe) ==
    IF counter_strafe >= breakpoints[1][1] THEN breakpoints[1][2]
    ELSE IF counter_strafe < breakpoints[Len(breakpoints) - 1][1]
         THEN breakpoints[Len(breakpoints)][2]
    ELSE interpolate(counter_strafe, 1)

(* _get_cs_multiplier, lines 21-60: the multiplier in 1/1000 *)
get_cs_multiplier(counter_strafe) ==
    IF counter_strafe >= breakpoints[1][1] THEN breakpoints[1][2]
    ELSE IF counter_strafe < breakpoints[Len(breakpoints)][1]
         THEN breakpoints[Len(breakpoints)][2]
    ELSE interpolate(counter_strafe, 1)

(* which return statement of _get_cs_multiplier is taken: line 45 (above   *)
(* the highest threshold), 49 (below the lowest), 59 (inside a band of the *)
(* loop) or 60 (the fallback after the loop)                               *)
cs_return_statement(counter_strafe) ==
    IF counter_strafe >= breakpoints[1][1] THEN "above"
    ELSE IF counter_strafe < breakpoints[Len(breakpoints)][1] THEN "below"
    ELSE IF \E i \in 1..(Len(breakpoints) - 1) :
                breakpoints[i + 1][1] <= counter_strafe /\ counter_strafe < breakpoints[i][1]
         THEN "band"
    ELSE "fallback"

(* _normalize_to_100, lines 63-68: the result times `scale`, where         *)
(* 100 * scale is a multiple of max_val - min_val                          *)
normalize_to_100(value, min_val, max_val, scale) ==
    IF max_val <= min_val THEN 50 * scale
    ELSE Max(0, Min(100 * scale, ((value - min_val) * 100 * scale) \div (max_val - min_val)))

(* lines 91-96: raw_score in 1/300; hs_percent and kpr in 1/100 *)
raw_score(hs_percent, kpr, adr) ==
    LET hs_score == normalize_to_100(hs_percent, 35, 65, 3)
        kpr_score == normalize_to_100(kpr, 50, 100, 3)
        adr_score == normalize_to_100(adr, 60, 120, 3)
    IN 35 * hs_score + 35 * kpr_score + 30 * adr_score

(* the clamp without its upper limit *)
clamp_int_no_ceiling(x, den) == Max(0, x) \div den

(* int(min(100, max(0, x))) for x in 1/den *)
clamp_int(x, den) == Min(100 * den, Max(0, x)) \div den

(* compute_aim_score, lines 71-105: <<raw_aim, effective_aim>> *)
compute_aim_score(hs_percent, kpr, adr, counter_strafe) ==
    LET raw == raw_score(hs_percent, kpr, adr)
        cs_mult == get_cs_multiplier(counter_strafe)
    IN << clamp_int(raw, 300), clamp_int(raw * cs_mult, 300000) >>

(* the penalty weight of the earlier revision: untradeable_ratio * 50 *)
compute_positioning_score_penalty50(untradeable_ratio, trade_success, survival_rate) ==
    LET base == 7000
        penalty == untradeable_ratio * 50
        bonus_trade == trade_success * 25
        bonus_surv == survival_rate * 15
    IN clamp_int(base - penalty + bonus_trade + bonus_surv, 100)

(* compute_positioning_score, lines 108-128: the three rates in 1/100,     *)
(* score in 1/100                                                          *)
compute_positioning_score(untradeable_ratio, trade_success, survival_rate) ==
    LET base == 7000
        penalty == untradeable_ratio * 70
        bonus_trade == trade_success * 25
        bonus_surv == survival_rate * 15
    IN clamp_int(base - penalty + bonus_trade + bonus_surv, 100)

(* the sentinel test with `or` for `and` *)
compute_utility_score_any_zero(enemies_blinded, util_dmg, flashes_thrown) ==
    IF enemies_blinded = 0 \/ util_dmg = 0 \/ flashes_thrown = 0 THEN -1
    ELSE LET s_blind == normalize(enemies_blinded, 0, 10)
             s_dmg == normalize(util_dmg, 0, 200)
             s_use == normalize(flashes_thrown, 0, 15)
         IN (4 * s_blind + 3 * s_dmg + 3 * s_use) \div 10

(* compute_utility_score, lines 131-148: the weighted sum in 1/10 *)
compute_utility_score(enemies_blinded, util_dmg, flashes_thrown) ==
    IF enemies_blinded = 0 /\ util_dmg = 0 /\ flashes_thrown = 0 THEN -1
    ELSE LET s_blind == normalize(enemies_blinded, 0, 10)
             s_dmg == normalize(util_dmg, 0, 200)
             s_use == normalize(flashes_thrown, 0, 15)
         IN (4 * s_blind + 3 * s_dmg + 3 * s_use) \div 10

(* the sum with the earlier weight 1.5 for a kill in a lost round *)
impact_sum_lost_kill_15(a) ==
    12 * a.kills_in_won_rounds + 3 * a.kills_in_lost_rounds - 10 * a.exit_frags
    + 20 * a.opening_kills_won + 4 * a.opening_kills_lost - 12 * a.entry_deaths
    + 30 * a.clutches_1v1 + 50 * a.clutches_1vN + 10 * a.multikills
    - 2 * a.tradeable_deaths - 12 * a.untradeable_deaths

(* compute_impact_score, lines 208-227: the running sum in 1/2 *)
impact_sum(a) ==
    12 * a.kills_in_won_rounds + a.kills_in_lost_rounds - 10 * a.exit_frags
    + 20 * a.opening_kills_won + 4 * a.opening_kills_lost - 12 * a.entry_deaths
    + 30 * a.clutches_1v1 + 50 * a.clutches_1vN + 10 * a.multikills
    - 2 * a.tradeable_deaths - 12 * a.untradeable_deaths

(* the floor without the total_kills test *)
impact_floor_any_player(total_kills, impact) ==
    IF impact < 0 THEN Max(impact, 10) ELSE impact

(* lines 229-231: if total_kills > 0 and impact < 0: impact = max(impact, 5.0) *)
impact_floor(total_kills, impact) ==
    IF total_kills > 0 /\ impact < 0 THEN Max(impact, 10) ELSE impact

(* compute_impact_score, lines 151-234 *)
compute_impact_score(a) == clamp_int(impact_floor(a.total_kills, impact_sum(a)), 2)

(* the default written as `scores.get(k) or 50`, which also replaces 0 *)
score_or_default_falsy(scores, k) ==
    IF k \in DOMAIN scores /\ scores[k] # 0 THEN scores[k] ELSE 50

(* lines 268-270: scores.get(k) if scores.get(k) is not None else 50 *)
score_or_default(scores, k) == IF k \in DOMAIN scores THEN scores[k] ELSE 50

(* the second band test with its comparison turned round *)
band_cap_flipped(imp, rating) ==
    IF imp <= 15 THEN Min(rating, 3500)
    ELSE IF imp >= 40 THEN Min(rating, 5000)
    ELSE rating

(* lines 277-284: the impact band cap, rating in 1/100 *)
band_cap(imp, rating) ==
    IF imp <= 15 THEN Min(rating, 3500)
    ELSE IF imp <= 40 THEN Min(rating, 5000)
    ELSE rating

(* the survival and opening-kill bonuses given to every role but Entry *)
role_adjust_bonus_for_all(rating, role, kdr, survival_rate, opening_kills) ==
    IF role = "Entry" /\ kdr < 80 THEN rating * 75
    ELSE LET bonused == rating + (IF survival_rate > 50 THEN 500 ELSE 0)
                               + opening_kills * 200
         IN IF role = "AWPer" /\ kdr < 80 THEN bonused * 80 ELSE bonused * 100

(* lines 286-297: the role adjustment; takes the rating in 1/100 and       *)
(* returns it in 1/10000.  kdr and survival_rate in 1/100.                 *)
role_adjust(rating, role, kdr, survival_rate, opening_kills) ==
    IF role = "Entry" /\ kdr < 80 THEN rating * 75
    ELSE IF role = "AWPer" THEN
        LET bonused == rating + (IF survival_rate > 50 THEN 500 ELSE 0)
                              + opening_kills * 200
        IN IF kdr < 80 THEN bonused * 80 ELSE bonused * 100
    ELSE rating * 100

(* the death tax taken off after the band cap instead of before it *)
adjusted_rating_tax_last(scores, role, kdr, untradeable_deaths, survival_rate, opening_kills) ==
    LET aim == score_or_default(scores, "aim")
        pos == score_or_default(scores, "positioning")
        imp == score_or_default(scores, "impact")
        weighted == 35 * aim + 25 * pos + 40 * imp
        capped == band_cap(imp, weighted)
        taxed == capped - untradeable_deaths * 50
    IN role_adjust(taxed, role, kdr, survival_rate, opening_kills)

(* lines 268-297: the rating before the final clamp, in 1/10000 *)
adjusted_rating(scores, role, kdr, untradeable_deaths, survival_rate, opening_kills) ==
    LET aim == score_or_default(scores, "aim")
        pos == score_or_default(scores, "positioning")
        imp == score_or_default(scores, "impact")
        weighted == 35 * aim + 25 * pos + 40 * imp
        taxed == weighted - untradeable_deaths * 50
        capped == band_cap(imp, taxed)
    IN role_adjust(capped, role, kdr, survival_rate, opening_kills)

(* compute_final_rating, lines 237-300 *)
compute_final_rating(scores, role, kdr, untradeable_deaths, survival_rate, opening_kills) ==
    clamp_int(adjusted_rating(scores, role, kdr, untradeable_deaths, survival_rate,
                              opening_kills), 10000)

-----------------------------------------------------------------------------
(* Inputs: PlayerFeatures records *)

(* team_id of a player with team data; Quiet below carries "" (no data) *)
TeamIds == {"CT", "T"}

Quiet ==
    [kills |-> 0, deaths |-> 0, awp_kills |-> 0, entry_kills |-> 0, entry_deaths |-> 0,
     flashes_thrown |-> 0, enemies_blinded |-> 0, tradeable_deaths |-> 0,
     avg_teammate_dist |-> 0, swing_kills |-> 0, kast_percentage |-> 60,
     raw_impact |-> 50, team_id |-> ""]

Profiles ==
    { Quiet,
      [Quiet EXCEPT !.kills = 4, !.awp_kills = 4],
      [Quiet EXCEPT !.kills = 8, !.awp_kills = 2],
      [Quiet EXCEPT !.kills = 3, !.entry_kills = 3, !.flashes_thrown = 2],
      [Quiet EXCEPT !.kills = 3, !.entry_kills = 3, !.entry_deaths = 3,
                    !.deaths = 3, !.flashes_thrown = 2],
      [Quiet EXCEPT !.kills = 2, !.entry_kills = 2, !.entry_deaths = 6, !.deaths = 6],
      [Quiet EXCEPT !.flashes_thrown = 5, !.enemies_blinded = 3] }

PlayerUniverse ==
    {[p EXCEPT !.team_id = t] : p \in Profiles \ {Quiet}, t \in TeamIds} \cup {Quiet}

Rosters == UNION {[1..n -> PlayerUniverse] : n \in 0..MaxPlayers}

-----------------------------------------------------------------------------
(* Inputs of the rule-ladder specification: one subject whose features sit *)
(* on either side of every threshold of the ladder, in every combination,  *)
(* placed anywhere among a few context players.                            *)

(* awp_ratio 2/9 < 0.25 and 2/8 = 0.25 *)
AwpFeatures == {[kills |-> 9, awp_kills |-> 2], [kills |-> 8, awp_kills |-> 2]}

(* 2 attempts; 3 attempts failing the gate on kills; passing the kill test *)
(* with KAST 0.54 and 0.55                                                 *)
EntryFeatures ==
    {[entry_kills |-> 1, entry_deaths |-> 1, kast_percentage |-> 55],
     [entry_kills |-> 1, entry_deaths |-> 2, kast_percentage |-> 55],
     [entry_kills |-> 2, entry_deaths |-> 1, kast_percentage |-> 54],
     [entry_kills |-> 2, entry_deaths |-> 1, kast_percentage |-> 55]}

FlashFeatures == {0, 2}

BlindFeatures == {2, 3}

DistFeatures == {650, 651}

SwingFeatures ==
    {[swing_kills |-> 1, raw_impact |-> 30],
     [swing_kills |-> 2, raw_impact |-> 29],
     [swing_kills |-> 2, raw_impact |-> 30]}

(* tradeable_ratio 7/20 = 0.35 and 2/5 = 0.4 *)
TradeFeatures == {[deaths |-> 20, tradeable_deaths |-> 7], [deaths |-> 5, tradeable_deaths |-> 2]}

ActiveSubjects ==
    {[kills |-> a.kills, deaths |-> t.deaths, awp_kills |-> a.awp_kills,
      entry_kills |-> e.entry_kills, entry_deaths |-> e.entry_deaths,
      flashes_thrown |-> f, enemies_blinded |-> b,
      tradeable_deaths |-> t.tradeable_deaths, avg_teammate_dist |-> d,
      swing_kills |-> w.swing_kills, kast_percentage |-> e.kast_percentage,
      raw_impact |-> w.raw_impact, team_id |-> tm] :
        a \in AwpFeatures, e \in EntryFeatures, f \in FlashFeatures, b \in BlindFeatures,
        d \in DistFeatures, w \in SwingFeatures, t \in TradeFeatures, tm \in TeamIds}

(* players without a kill or a death: only utility and distance vary *)
IdleSubjects ==
    {[Quiet EXCEPT !.flashes_thrown = f, !.enemies_blinded = b,
                   !.avg_teammate_dist = d, !.team_id = tm] :
        f \in FlashFeatures, b \in BlindFeatures, d \in DistFeatures, tm \in TeamIds}

LadderSubjects == ActiveSubjects \cup IdleSubjects

(* a player without team data, a quiet CT, a T who throws 6 flashes, and a *)
(* CT with 5 AWP kills out of 10                                           *)
LadderContext ==
    { Quiet,
      [Quiet EXCEPT !.team_id = "CT"],
      [Quiet EXCEPT !.flashes_thrown = 6, !.team_id = "T"],
      [Quiet EXCEPT !.kills = 10, !.awp_kills = 5, !.team_id = "CT"] }

InsertAt(s, k, x) == SubSeq(s, 1, k - 1) \o <<x>> \o SubSeq(s, k, Len(s))

-----------------------------------------------------------------------------
(* Inputs of the ScoreEngine functions *)

(* counter_strafe values whose float multiplier is below the exact one *)
FloatInexactCs == {71, 72, 73}

HsValues == {30, 35, 50, 65, 70}

KprValues == {40, 50, 75, 100, 110}

AdrValues == {50, 60, 90, 120, 130}

CsValues == (0..MaxCounterStrafe) \ FloatInexactCs

RateValues == {10 * k : k \in 0..MaxRateSteps}

DamageValues == {20 * k : k \in 0..MaxDamageSteps} \cup {1, 199}

ImpactArgs ==
    [opening_kills_won : 0..1, opening_kills_lost : 0..1, entry_deaths : 0..1,
     kills_in_won_rounds : {0, 1, 17}, kills_in_lost_rounds : 0..MaxCount,
     exit_frags : 0..MaxCount, multikills : 0..1, clutches_1v1 : 0..1,
     clutches_1vN : 0..1, untradeable_deaths : 0..MaxCount, tradeable_deaths : 0..1,
     total_kills : 0..1]

Categories == {"aim", "positioning", "impact"}

CategoryValues(k) == IF k = "impact" THEN 0..100 ELSE {0, 60, 100}

ScoreMaps ==
    UNION {{sc \in [D -> 0..100] : \A k \in D : sc[k] \in CategoryValues(k)} :
           D \in SUBSET Categories}

RatingRoles == {"Entry", "AWPer", "Support"}

KdrValues == {79, 80}

SurvivalValues == {50, 51}

-----------------------------------------------------------------------------
(* The call classify_roles(players) *)

Pending == "pending"

ScoreEngineIdle == fn = "none" /\ args = <<>> /\ ret = Pending

(* no demo loaded: no TimelineBuilder, no call of roles.classify_roles *)
DemoIdle ==
    /\ demo = <<>>
    /\ tickrate = 0
    /\ round_timelines = <<>>
    /\ all_assignments = Pending

RoleClassifierIdle ==
    /\ players = <<>>
    /\ pc = "idle"
    /\ role_candidates = <<>>
    /\ phase1 = <<>>
    /\ teams = <<>>
    /\ results = <<>>

Init ==
    /\ players \in Rosters
    /\ pc = "call"
    /\ role_candidates = <<>>
    /\ phase1 = <<>>
    /\ teams = <<>>
    /\ results = <<>>
    /\ ScoreEngineIdle
    /\ DemoIdle

(* lines 41-169.  An empty roster returns {} at line 49, before any of the *)
(* working maps is built.  A zero divisor at lines 53-74 raises            *)
(* ZeroDivisionError out of the call, before anything is assigned.         *)
ClassifyRoles ==
    /\ pc = "call"
    /\ IF Len(players) = 0
       THEN /\ results' = <<>>
            /\ pc' = "done"
            /\ UNCHANGED <<role_candidates, phase1, teams>>
       ELSE IF 0 \in roster_divisors(players)
       THEN /\ pc' = "ZeroDivisionError"
            /\ UNCHANGED <<role_candidates, phase1, teams, results>>
       ELSE /\ phase1' = Phase1Candidates(players)
            /\ teams' = TeamPartition(players)
            /\ role_candidates' = ApplyQuotas(phase1', teams', 1)
            /\ results' = ExtractRoles(role_candidates')
            /\ pc' = "done"
    /\ UNCHANGED <<players, fn, args, ret>>
    /\ UNCHANGED demoVars

Next == ClassifyRoles

Spec == Init /\ [][Next]_vars

(* classify_roles called on a roster of the rule-ladder inputs *)
InitLadder ==
    /\ \/ players = <<>>
       \/ \E n \in 0..(MaxLadderPlayers - 1) :
            \E c \in [1..n -> LadderContext], k \in 1..(n + 1), s \in LadderSubjects :
                players = InsertAt(c, k, s)
    /\ pc = "call"
    /\ role_candidates = <<>>
    /\ phase1 = <<>>
    /\ teams = <<>>
    /\ results = <<>>
    /\ ScoreEngineIdle
    /\ DemoIdle

SpecLadder == InitLadder /\ [][Next]_vars

-----------------------------------------------------------------------------
(* Properties of classify_roles, checked under Spec *)

Returned == pc = "done" /\ Len(players) > 0

TeamPids == {teams[k].pids : k \in 1..Len(teams)}

Phase1Holders(team_pids, role) == {pid \in team_pids : phase1[pid].role = role}

Holders(team_pids, role) == {pid \in team_pids : results[pid] = role}

(* C1: classify_roles returns a mapping whose keys are exactly the input   *)
(* player ids and whose values are all among the seven roles.              *)
C1_TotalRoleMapping ==
    pc = "done" =>
        /\ DOMAIN results = Pids(players)
        /\ \A pid \in DOMAIN results : results[pid] \in Roles

(* a full roster in which Phase 2 demoted a player and a Support remains *)
C1_Witness ==
    /\ Returned
    /\ Len(players) = 4
    /\ \E pid \in Pids(players) : phase1[pid].role = "AWPer" /\ results[pid] = "Trader"
    /\ \E pid \in Pids(players) : results[pid] = "Support"
    /\ \E pid \in Pids(players) : results[pid] = "SiteAnchor"

(* C2: after classify_roles returns, every team of the Phase 2 partition   *)
(* holds at most 1 AWPer and at most 2 Entry players.                      *)
C2_TeamQuotas ==
    Returned =>
        \A team_pids \in TeamPids :
            /\ Cardinality(Holders(team_pids, "AWPer")) <= 1
            /\ Cardinality(Holders(team_pids, "Entry")) <= 2

(* a team_id team in which three players qualified for Entry in Phase 1 *)
C2_Witness ==
    /\ Returned
    /\ \E k \in 1..Len(teams) :
        /\ teams[k].name = "CT"
        /\ Cardinality(Phase1Holders(teams[k].pids, "Entry")) = 3
        /\ Cardinality(Holders(teams[k].pids, "Entry")) = 2

QuotaOf(role) == IF role = "AWPer" THEN 1 ELSE 2

(* C3: within each team, of the k players Phase 1 labelled AWPer (Entry),  *)
(* exactly min(k, 1) (min(k, 2)) keep the role, every kept player's Phase 1 *)
(* score is at least every demoted player's, and the demoted are Trader.   *)
C3_TopScorersKept ==
    Returned =>
        \A team_pids \in TeamPids : \A role \in {"AWPer", "Entry"} :
            LET labelled == Phase1Holders(team_pids, role)
                kept == {pid \in labelled : results[pid] = role}
            IN /\ Cardinality(kept) = Min(Cardinality(labelled), QuotaOf(role))
               /\ \A a \in kept : \A b \in labelled \ kept :
                    FracGE(phase1[a].score, phase1[b].score)
               /\ \A b \in labelled \ kept : results[b] = "Trader"

(* Entry scores 4.0, 2.5 and 1.0 on one team: the 1.0 player is demoted *)
C3_Witness ==
    /\ Returned
    /\ \E team_pids \in TeamPids : \E a, b, c \in team_pids :
        /\ phase1[a].role = "Entry" /\ FracEQ(phase1[a].score, Frac(4, 1))
        /\ phase1[b].role = "Entry" /\ FracEQ(phase1[b].score, Frac(5, 2))
        /\ phase1[c].role = "Entry" /\ FracEQ(phase1[c].score, Frac(1, 1))
        /\ results[a] = "Entry" /\ results[b] = "Entry" /\ results[c] = "Trader"

-----------------------------------------------------------------------------
(* Properties of classify_roles, checked under SpecLadder *)

(* awp_kills / max(1, kills) >= 0.25 and awp_kills >= 2, in hundredths *)
AwpQualified(p) == 100 * p.awp_kills >= 25 * Max(1, p.kills) /\ p.awp_kills >= 2

(* the Phase 2 team that holds pid *)
TeamOfPid(pid) == CHOOSE team_pids \in TeamPids : pid \in team_pids

NoKillsNoDeaths(p) == p.kills = 0 /\ p.deaths = 0

(* flashes_thrown above the roster mean, or 3 enemies blinded *)
SupportMatch(pid) ==
    \/ players[pid].flashes_thrown * Len(players) > total_flashes(players)
    \/ players[pid].enemies_blinded >= 3

LurkerMatch(pid) == players[pid].avg_teammate_dist > 650

(* C12 as stated: the call raises no division error, every player with     *)
(* zero kills and zero deaths is classified SiteAnchor, and an empty       *)
(* roster returns an empty mapping.                                        *)
C12_ZeroPlayerIsAnchor ==
    pc # "call" =>
        /\ pc = "done"
        /\ Len(players) = 0 => results = <<>>
        /\ Len(players) > 0 =>
              \A pid \in Pids(players) :
                  NoKillsNoDeaths(players[pid]) => results[pid] = "SiteAnchor"

(* C12 amended: the call raises no division error; a player with zero      *)
(* kills and zero deaths is classified SiteAnchor unless the Support rule  *)
(* or the Lurker rule matches, and then Support (first) or Lurker; an      *)
(* empty roster returns an empty mapping.                                  *)
C12_ZeroPlayerSafe ==
    pc # "call" =>
        /\ pc = "done"
        /\ Len(players) = 0 => results = <<>>
        /\ Len(players) > 0 =>
              \A pid \in Pids(players) :
                  NoKillsNoDeaths(players[pid]) =>
                      results[pid] = IF SupportMatch(pid) THEN "Support"
                                     ELSE IF LurkerMatch(pid) THEN "Lurker"
                                     ELSE "SiteAnchor"

(* a roster that holds a player with every counter zero, classified        *)
(* SiteAnchor, and one with zero kills and deaths classified Lurker        *)
C12_Witness ==
    /\ Returned
    /\ \E pid \in Pids(players) :
        /\ NoKillsNoDeaths(players[pid])
        /\ players[pid].flashes_thrown = 0
        /\ results[pid] = "SiteAnchor"
    /\ \E pid \in Pids(players) :
        /\ NoKillsNoDeaths(players[pid])
        /\ results[pid] = "Lurker"

Attempts(pid) == players[pid].entry_kills + players[pid].entry_deaths

(* fewer than four players come before pid when the roster is ranked by    *)
(* entry attempts, largest first, equal attempts in input order            *)
InTopFourByAttempts(pid) ==
    Cardinality({q \in Pids(players) :
                    \/ Attempts(q) > Attempts(pid)
                    \/ Attempts(q) = Attempts(pid) /\ q < pid}) < 4

EntryEligible(pid) == InTopFourByAttempts(pid) /\ Attempts(pid) >= 3

RotatorMatch(pid) == players[pid].swing_kills >= 2 /\ players[pid].raw_impact >= 30

(* tradeable_deaths / max(1, deaths) > 0.35 *)
TraderMatch(pid) ==
    100 * players[pid].tradeable_deaths > 35 * Max(1, players[pid].deaths)

(* the roles of the first rule that matches pid, in the order of the claim *)
FirstMatchRoles(pid) ==
    IF AwpQualified(players[pid]) THEN {"AWPer"}
    ELSE IF EntryEligible(pid) THEN {"Entry", "Trader"}
    ELSE IF SupportMatch(pid) THEN {"Support"}
    ELSE IF LurkerMatch(pid) THEN {"Lurker"}
    ELSE IF RotatorMatch(pid) THEN {"Rotator"}
    ELSE IF TraderMatch(pid) THEN {"Trader"}
    ELSE {"SiteAnchor"}

TeamFlashes(team_pids) ==
    LET RECURSIVE Sum(_)
        Sum(S) == IF S = {} THEN 0
                  ELSE LET q == CHOOSE q \in S : TRUE
                       IN players[q].flashes_thrown + Sum(S \ {q})
    IN Sum(team_pids)

FailsQualityGate(pid) ==
    \/ ~(\/ 100 * players[pid].entry_kills >= 35 * Max(1, Attempts(pid))
          \/ players[pid].entry_kills >= 2)
    \/ players[pid].kast_percentage < 55

(* C17: a player who is not an AWPer, is Entry-eligible and fails the      *)
(* quality gate gets Trader with score 0 in Phase 1 and is returned as     *)
(* Trader, whatever the Support, Lurker and Rotator rules say.             *)
C17_GateFailureIsTrader ==
    Returned =>
        \A pid \in Pids(players) :
            (~AwpQualified(players[pid]) /\ EntryEligible(pid) /\ FailsQualityGate(pid))
                => /\ phase1[pid] = Candidate("Trader", Zero)
                   /\ results[pid] = "Trader"

(* a player with 2 entry kills in 3 attempts and KAST 0.54 who also fits   *)
(* the Support, Lurker and Rotator rules                                   *)
C17_Witness ==
    /\ Returned
    /\ \E pid \in Pids(players) :
        /\ ~AwpQualified(players[pid]) /\ EntryEligible(pid)
        /\ players[pid].entry_kills = 2 /\ players[pid].kast_percentage = 54
        /\ SupportMatch(pid) /\ LurkerMatch(pid) /\ RotatorMatch(pid)
        /\ phase1[pid] = Candidate("Trader", Zero)
        /\ results[pid] = "Trader"

(* C29: the four Entry slots are given by entry attempts over the whole    *)
(* roster, AWPers included: a player ranked fifth or lower is never Entry, *)
(* nor Trader by the gate of the Entry rule, even when players ranked      *)
(* above are AWPers, and at most 4 players of the roster are Entry.        *)
C29_AwpersOccupySlots ==
    Returned =>
        /\ \A pid \in Pids(players) :
            ~InTopFourByAttempts(pid) =>
                /\ phase1[pid].role # "Entry" /\ results[pid] # "Entry"
                /\ phase1[pid].role = "Trader" => TraderMatch(pid)
        /\ Cardinality({pid \in Pids(players) : phase1[pid].role = "Entry"}) <= 4
        /\ Cardinality({pid \in Pids(players) : results[pid] = "Entry"}) <= 4

(* four AWP players with 4 attempts each, then a player with 3 attempts    *)
(* who passes the gate: the fifth is SiteAnchor and nobody is Entry        *)
C29_Witness ==
    /\ Returned
    /\ Len(players) = 5
    /\ \A pid \in 1..4 : phase1[pid].role = "AWPer" /\ Attempts(pid) = 4
    /\ Attempts(5) = 3 /\ ~FailsQualityGate(5) /\ ~AwpQualified(players[5])
    /\ phase1[5].role = "SiteAnchor"
    /\ \A pid \in 1..5 : results[pid] # "Entry"

(* C25: Phase 2 only demotes AWPer or Entry players to Trader: a Support,  *)
(* Lurker, Rotator, Trader or SiteAnchor of Phase 1 is returned unchanged,  *)
(* a returned role differs from the Phase 1 role only for an AWPer or an   *)
(* Entry who is returned as Trader, and a demoted AWPer gets no other role *)
(* even when the Entry rule fits.                                          *)
C25_PhaseTwoOnlyDemotes ==
    Returned =>
        \A pid \in Pids(players) :
            /\ phase1[pid].role \in {"Support", "Lurker", "Rotator", "Trader", "SiteAnchor"}
                  => results[pid] = phase1[pid].role
            /\ results[pid] # phase1[pid].role
                  => phase1[pid].role \in {"AWPer", "Entry"} /\ results[pid] = "Trader"

(* an AWPer candidate outscored on the own team, with 3 entry attempts and *)
(* a passed quality gate, is returned as Trader and not as Entry, beside a *)
(* Support who is left alone                                               *)
C25_Witness ==
    /\ Returned
    /\ \E pid \in Pids(players) :
        /\ phase1[pid].role = "AWPer"
        /\ EntryEligible(pid) /\ ~FailsQualityGate(pid)
        /\ results[pid] = "Trader"
    /\ \E pid \in Pids(players) : phase1[pid].role = "Support" /\ results[pid] = "Support"

(* C26: when more candidates of one team for AWPer or Entry have equal     *)
(* scores than the quota allows, the ones earlier in input order keep the  *)
(* role and the later ones are demoted.                                    *)
C26_TiesKeepEarlier ==
    Returned =>
        \A team_pids \in TeamPids : \A role \in {"AWPer", "Entry"} :
            \A a, b \in Phase1Holders(team_pids, role) :
                (a < b /\ FracEQ(phase1[a].score, phase1[b].score) /\ results[b] = role)
                    => results[a] = role

(* two AWPer candidates of one team with the same features, so equal       *)
(* scores: the first stays AWPer, the second is demoted                    *)
C26_Witness ==
    /\ Returned
    /\ \E team_pids \in TeamPids : \E a, b \in Phase1Holders(team_pids, "AWPer") :
        /\ a < b
        /\ FracEQ(phase1[a].score, phase1[b].score)
        /\ players[a] = players[b]
        /\ results[a] = "AWPer" /\ results[b] = "Trader"

(* the sequences that list the teams of tms in some order *)
TeamOrders(tms) ==
    {[i \in 1..Len(tms) |-> tms[f[i]]] :
        f \in {g \in [1..Len(tms) -> 1..Len(tms)] :
                  \A i, j \in 1..Len(tms) : g[i] = g[j] => i = j}}

(* the quota loop with the Entry quota applied before the AWPer quota *)
RECURSIVE EntryQuotaFirst(_, _, _)
EntryQuotaFirst(rc, tms, k) ==
    IF k > Len(tms) THEN rc
    ELSE EntryQuotaFirst(
            apply_quota_per_team(
                apply_quota_per_team(rc, "Entry", MAX_ENTRIES_PER_TEAM, tms[k].pids),
                "AWPer", MAX_AWPERS_PER_TEAM, tms[k].pids),
            tms, k + 1)

(* C27: quota enforcement gives the same roles whatever the order of the   *)
(* teams and with the Entry quota before the AWPer quota, the quotas of    *)
(* one team change no player of another team, and a second run of Phase 2  *)
(* on its own result changes no role.                                      *)
C27_QuotaOrderIndependent ==
    Returned =>
        /\ \A tms \in TeamOrders(teams) :
                ExtractRoles(ApplyQuotas(phase1, tms, 1)) = results
        /\ ExtractRoles(EntryQuotaFirst(phase1, teams, 1)) = results
        /\ \A k \in 1..Len(teams) : \A rc \in {phase1, role_candidates} :
                \A pid \in Pids(players) \ teams[k].pids :
                    ApplyQuotas(rc, <<teams[k]>>, 1)[pid] = rc[pid]
        /\ ExtractRoles(ApplyQuotas(role_candidates, teams, 1)) = results

(* two teams: an AWPer demoted in the second, an AWPer and an Entry kept   *)
(* in the first                                                            *)
C27_Witness ==
    /\ Returned
    /\ Len(teams) = 2
    /\ \E a \in teams[2].pids : phase1[a].role = "AWPer" /\ results[a] = "Trader"
    /\ \E b, c \in teams[1].pids : results[b] = "AWPer" /\ results[c] = "Entry"

(* Rosters of more than four players who differ in their opening duels:    *)
(* no attempt, 2 of 2 won, 2 of 3 won, 3 of 4 won, 0 of 4 won; and one AWP *)
(* player (5 AWP kills of 10) with 3 of 4 opening duels won.               *)
OpeningDuels ==
    {[entry_kills |-> 0, entry_deaths |-> 0], [entry_kills |-> 2, entry_deaths |-> 0],
     [entry_kills |-> 2, entry_deaths |-> 1], [entry_kills |-> 3, entry_deaths |-> 1],
     [entry_kills |-> 0, entry_deaths |-> 4]}

EntryPlayers ==
    {[Quiet EXCEPT !.entry_kills = d.entry_kills, !.entry_deaths = d.entry_deaths,
                   !.kills = d.entry_kills, !.deaths = d.entry_deaths] :
        d \in OpeningDuels}
    \cup {[Quiet EXCEPT !.kills = 10, !.awp_kills = 5, !.deaths = 1,
                        !.entry_kills = 3, !.entry_deaths = 1]}

InitEntry ==
    /\ \E n \in 0..MaxEntryPlayers : players \in [1..n -> EntryPlayers]
    /\ pc = "call"
    /\ role_candidates = <<>>
    /\ phase1 = <<>>
    /\ teams = <<>>
    /\ results = <<>>
    /\ ScoreEngineIdle
    /\ DemoIdle

SpecEntry == InitEntry /\ [][Next]_vars

(* C18: Entry eligibility uses the four players with the most entry        *)
(* attempts over the whole roster, equal attempts in input order; a player *)
(* outside that set, or with fewer than 3 attempts, is never Entry, and a  *)
(* player inside it with 3 attempts or more who passes the gate is the     *)
(* Entry candidate of Phase 1.                                             *)
C18_TopFourByAttempts ==
    Returned =>
        \A pid \in Pids(players) :
            /\ (~InTopFourByAttempts(pid) \/ Attempts(pid) < 3)
                  => phase1[pid].role # "Entry" /\ results[pid] # "Entry"
            /\ (/\ InTopFourByAttempts(pid) /\ Attempts(pid) >= 3
                /\ ~AwpQualified(players[pid]) /\ ~FailsQualityGate(pid))
                  => phase1[pid].role = "Entry"

(* five players with the same 3 attempts, all passing the gate: the first  *)
(* four are Entry candidates, the fifth is not                             *)
C18_Witness ==
    /\ Returned
    /\ Len(players) = 5
    /\ \A pid \in 1..5 : Attempts(pid) = 3 /\ ~FailsQualityGate(pid)
    /\ \A pid \in 1..4 : phase1[pid].role = "Entry"
    /\ phase1[5].role # "Entry" /\ results[5] # "Entry"

(* Rosters whose players differ in team_id, missing ("") and "unknown"     *)
(* included, and in being an AWPer candidate (5 AWP kills of 10) or not.   *)
TeamIdValues == {"CT", "T", "SPEC", "", "unknown"}

TeamPlayers ==
    {[Quiet EXCEPT !.team_id = t, !.kills = k, !.awp_kills = k \div 2] :
        t \in TeamIdValues, k \in {0, 10}}

InitTeams ==
    /\ \E n \in 0..MaxTeamPlayers : players \in [1..n -> TeamPlayers]
    /\ pc = "call"
    /\ role_candidates = <<>>
    /\ phase1 = <<>>
    /\ teams = <<>>
    /\ results = <<>>
    /\ ScoreEngineIdle
    /\ DemoIdle

SpecTeams == InitTeams /\ [][Next]_vars

TeamIdsPresent == {players[pid].team_id : pid \in Pids(players)}

(* every player has a team_id that is neither empty nor "unknown", and at  *)
(* least two distinct values occur                                         *)
RealTeamData ==
    /\ "" \notin TeamIdsPresent
    /\ "unknown" \notin TeamIdsPresent
    /\ Cardinality(TeamIdsPresent) >= 2

PartitionByTeamId ==
    {{pid \in Pids(players) : players[pid].team_id = t} : t \in TeamIdsPresent}

PartitionByIndex ==
    LET half == Len(players) \div 2
    IN {1..half, (half + 1)..Len(players)}

TeamPidSets == {teams[k].pids : k \in 1..Len(teams)}

(* C19: Phase 2 partitions the roster by team_id exactly when every player *)
(* has a non-empty, non-"unknown" team_id and two or more distinct values  *)
(* occur; otherwise the teams are the first floor(n/2) players in input    *)
(* order and the rest.                                                     *)
C19_TeamPartition ==
    Returned =>
        TeamPidSets = IF RealTeamData THEN PartitionByTeamId ELSE PartitionByIndex

(* CT, T, CT and one player of "unknown" team: the teams are {1,2}, {3,4}  *)
(* and not the three groups by team_id; the two CT AWPers, now in          *)
(* different halves, both keep the role                                    *)
C19_Witness ==
    /\ Returned
    /\ Len(players) = 4
    /\ players[1].team_id = "CT" /\ players[2].team_id = "T"
    /\ players[3].team_id = "CT" /\ players[4].team_id = "unknown"
    /\ TeamPidSets = {{1, 2}, {3, 4}}
    /\ PartitionByTeamId # TeamPidSets
    /\ results[1] = "AWPer" /\ results[3] = "AWPer"

-----------------------------------------------------------------------------
(* The ScoreEngine: static functions, each call independent of the others. *)

InitScore == RoleClassifierIdle /\ ScoreEngineIdle /\ DemoIdle

Return(f, a, r) ==
    /\ fn' = f
    /\ args' = a
    /\ ret' = r
    /\ UNCHANGED roleVars
    /\ UNCHANGED demoVars

ComputeAimScore ==
    /\ fn = "none"
    /\ \E hs \in HsValues, kpr \in KprValues, adr \in AdrValues, cs \in CsValues :
        Return("compute_aim_score",
               [hs_percent |-> hs, kpr |-> kpr, adr |-> adr, counter_strafe |-> cs],
               compute_aim_score(hs, kpr, adr, cs))

GetCsMultiplier ==
    /\ fn = "none"
    /\ \E cs \in 0..MaxCounterStrafe :
        Return("_get_cs_multiplier", [counter_strafe |-> cs],
               [mult |-> get_cs_multiplier(cs), via |-> cs_return_statement(cs)])

ComputePositioningScore ==
    /\ fn = "none"
    /\ \E u \in RateValues, t \in RateValues, sv \in RateValues :
        Return("compute_positioning_score",
               [untradeable_ratio |-> u, trade_success |-> t, survival_rate |-> sv],
               compute_positioning_score(u, t, sv))

ComputeUtilityScore ==
    /\ fn = "none"
    /\ \E b \in 0..MaxBlinded, d \in DamageValues, f \in 0..MaxFlashes :
        Return("compute_utility_score",
               [enemies_blinded |-> b, util_dmg |-> d, flashes_thrown |-> f],
               compute_utility_score(b, d, f))

ComputeImpactScore ==
    /\ fn = "none"
    /\ \E a \in ImpactArgs : Return("compute_impact_score", a, compute_impact_score(a))

ComputeFinalRating ==
    /\ fn = "none"
    /\ \E sc \in ScoreMaps, role \in RatingRoles, kdr \in KdrValues,
       ud \in 0..MaxUntradeable, sv \in SurvivalValues, ok \in 0..MaxOpeningKills :
        Return("compute_final_rating",
               [scores |-> sc, role |-> role, kdr |-> kdr, untradeable_deaths |-> ud,
                survival_rate |-> sv, opening_kills |-> ok],
               compute_final_rating(sc, role, kdr, ud, sv, ok))

NextScore ==
    \/ ComputeAimScore
    \/ GetCsMultiplier
    \/ ComputePositioningScore
    \/ ComputeUtilityScore
    \/ ComputeImpactScore
    \/ ComputeFinalRating

SpecScore == InitScore /\ [][NextScore]_vars

-----------------------------------------------------------------------------
(* Properties of the ScoreEngine, checked under SpecScore *)

Called(f) == fn = f

ImpactPositives(a) ==
    a.kills_in_won_rounds + a.kills_in_lost_rounds + a.opening_kills_won
    + a.opening_kills_lost + a.clutches_1v1 + a.clutches_1vN + a.multikills

(* C5: for every input with total_kills > 0, compute_impact_score returns  *)
(* at least 5.                                                             *)
C5_KillFloor ==
    Called("compute_impact_score") /\ args.total_kills > 0 => ret >= 5

UtilityAllZero == args.enemies_blinded = 0 /\ args.util_dmg = 0 /\ args.flashes_thrown = 0

(* C6: compute_utility_score returns -1 exactly when its three arguments   *)
(* are all zero, and otherwise an integer in [0, 100].                     *)
C6_UtilitySentinel ==
    Called("compute_utility_score") =>
        /\ ret = -1 <=> UtilityAllZero
        /\ ~UtilityAllZero => ret \in 0..100

(* a single point of utility damage scores 0, not the sentinel *)
C6_Witness ==
    /\ Called("compute_utility_score")
    /\ args.enemies_blinded = 0 /\ args.util_dmg = 1 /\ args.flashes_thrown = 0
    /\ ret = 0

RatingOf(a) ==
    compute_final_rating(a.scores, a.role, a.kdr, a.untradeable_deaths,
                         a.survival_rate, a.opening_kills)

(* the values of category k that a raise to v is compared against: the    *)
(* value just below v and, for aim and positioning, the lower input values *)
LowerValues(k, v) ==
    IF k = "impact" THEN {v - 1} \cap (0..100)
    ELSE {u \in CategoryValues(k) \cup {v - 1} : 0 <= u /\ u < v}

(* C7: with everything else held fixed, raising aim, positioning or impact *)
(* never lowers the rating compute_final_rating returns.                   *)
C7_RatingMonotone ==
    Called("compute_final_rating") =>
        \A k \in DOMAIN args.scores : \A u \in LowerValues(k, args.scores[k]) :
            RatingOf([args EXCEPT !.scores[k] = u]) <= ret

(* impact raised from 15 to 16 leaves the 35 cap for the 50 cap *)
C7_Witness ==
    /\ Called("compute_final_rating")
    /\ DOMAIN args.scores = Categories
    /\ args.scores["impact"] = 16
    /\ ret = 50
    /\ RatingOf([args EXCEPT !.scores["impact"] = 15]) = 35

(* C8: compute_aim_score returns effective_aim <= raw_aim. *)
C8_EffectiveAtMostRaw ==
    Called("compute_aim_score") => ret[2] <= ret[1]

(* a full raw aim under the 0.92 multiplier of counter_strafe 85 *)
C8_Witness ==
    /\ Called("compute_aim_score")
    /\ args.counter_strafe = 85
    /\ ret = <<100, 92>>

(* C9: raw_aim, effective_aim, the positioning score, the impact score and *)
(* the final rating are integers in [0, 100].                              *)
C9_ScoresInRange ==
    /\ Called("compute_aim_score") => ret[1] \in 0..100 /\ ret[2] \in 0..100
    /\ Called("compute_positioning_score") => ret \in 0..100
    /\ Called("compute_impact_score") => ret \in 0..100
    /\ Called("compute_final_rating") => ret \in 0..100

RatingUnclamped(a) ==
    adjusted_rating(a.scores, a.role, a.kdr, a.untradeable_deaths,
                    a.survival_rate, a.opening_kills)

(* an AWPer whose bonuses carry the rating past 100 *)
C9_Witness ==
    /\ Called("compute_final_rating")
    /\ args.role = "AWPer"
    /\ RatingUnclamped(args) > 100 * 10000
    /\ ret = 100

(* C10: with total_kills = 0 and every positive counter zero,              *)
(* compute_impact_score returns exactly 0.                                 *)
C10_ZeroKillsNoFloor ==
    Called("compute_impact_score") /\ args.total_kills = 0 /\ ImpactPositives(args) = 0
        => ret = 0

(* a zero-kill player with an exit frag and an untradeable death *)
C10_Witness ==
    /\ Called("compute_impact_score")
    /\ args.total_kills = 0
    /\ ImpactPositives(args) = 0
    /\ args.exit_frags = 1 /\ args.untradeable_deaths = 1
    /\ ret = 0

(* a category score, 50 when the mapping has none *)
ScoreOf(k) == IF k \in DOMAIN args.scores THEN args.scores[k] ELSE 50

(* B = 0.35*aim + 0.25*positioning + 0.40*impact - 0.5*untradeable_deaths, *)
(* in hundredths                                                           *)
RatingB ==
    35 * ScoreOf("aim") + 25 * ScoreOf("positioning") + 40 * ScoreOf("impact")
        - 50 * args.untradeable_deaths

(* C = min(B, 35) if impact <= 15, min(B, 50) if impact <= 40, else B *)
RatingC ==
    IF ScoreOf("impact") <= 15 THEN Min(RatingB, 3500)
    ELSE IF ScoreOf("impact") <= 40 THEN Min(RatingB, 5000)
    ELSE RatingB

(* R in ten-thousandths; kdr and survival_rate are in hundredths *)
RatingR ==
    IF args.role = "Entry" /\ args.kdr < 80 THEN 75 * RatingC
    ELSE IF args.role = "AWPer" THEN
        (RatingC + (IF args.survival_rate > 50 THEN 500 ELSE 0)
                 + 200 * args.opening_kills)
            * (IF args.kdr < 80 THEN 80 ELSE 100)
    ELSE 100 * RatingC

(* trunc(clamp(x, 0, 100)) for x in ten-thousandths *)
TruncClamp10000(x) ==
    LET clamped == IF x < 0 THEN 0 ELSE IF x > 1000000 THEN 1000000 ELSE x
    IN CHOOSE k \in 0..100 : 10000 * k <= clamped /\ clamped < 10000 * (k + 1)

UntruncatedUtility20 ==
    80 * Min(args.enemies_blinded, 10) + 3 * Min(args.util_dmg, 200)
        + 40 * Min(args.flashes_thrown, 15)

TruncatedScaling(value, ceiling) ==
    CHOOSE k \in 0..100 :
        /\ k * ceiling <= 100 * Min(value, ceiling)
        /\ 100 * Min(value, ceiling) < (k + 1) * ceiling \/ k = 100

ImpactS2 ==
    2 * (6 * args.kills_in_won_rounds - 5 * args.exit_frags
         + 10 * args.opening_kills_won + 2 * args.opening_kills_lost
         - 6 * args.entry_deaths + 15 * args.clutches_1v1 + 25 * args.clutches_1vN
         + 5 * args.multikills - args.tradeable_deaths - 6 * args.untradeable_deaths)
    + args.kills_in_lost_rounds

(* twice S': 5 when total_kills > 0 and S < 0, otherwise S *)
ImpactSPrime2 == IF args.total_kills > 0 /\ ImpactS2 < 0 THEN 10 ELSE ImpactS2

ScoresCompleted == [k \in Categories |-> ScoreOf(k)]

CsTable == {<<60, 600>>, <<65, 720>>, <<75, 820>>, <<85, 920>>, <<95, 1000>>}

(* m lies on the straight line through the two table points that bracket  *)
(* cs: the last one at or below cs and the first one above it              *)
OnBracketingLine(cs, m) ==
    \E lo \in CsTable, hi \in CsTable :
        /\ lo[1] <= cs /\ cs < hi[1]
        /\ \A t \in CsTable : ~(lo[1] < t[1] /\ t[1] < hi[1])
        /\ (m - lo[2]) * (hi[1] - lo[1]) = (cs - lo[1]) * (hi[2] - lo[2])

(* C21: the counter-strafe multiplier is 1.00 from 95 up, 0.60 below 60,   *)
(* the table value at each breakpoint and the linear interpolation between *)
(* the bracketing breakpoints otherwise; it is non-decreasing, lies in     *)
(* [0.60, 1.00], and the fallback return is never taken.                   *)
C21_CsMultiplierCurve ==
    Called("_get_cs_multiplier") =>
        LET cs == args.counter_strafe
        IN /\ cs >= 95 => ret.mult = 1000
           /\ cs < 60 => ret.mult = 600
           /\ \A t \in CsTable : cs = t[1] => ret.mult = t[2]
           /\ (60 <= cs /\ cs < 95) => OnBracketingLine(cs, ret.mult)
           /\ \A below \in 0..cs : get_cs_multiplier(below) <= ret.mult
           /\ 600 <= ret.mult /\ ret.mult <= 1000
           /\ ret.via # "fallback"

(* 62 lies between (60, 0.60) and (65, 0.72): 0.60 + 2/5 * 0.12 = 0.648 *)
C21_Witness ==
    /\ Called("_get_cs_multiplier")
    /\ args.counter_strafe = 62
    /\ ret = [mult |-> 648, via |-> "band"]

(* 70 - 70*u + 25*t + 15*s in hundredths, for u, t, s in hundredths *)
PositioningValue(u, t, sv) == 7000 - 70 * u + 25 * t + 15 * sv

(* trunc(clamp(x, 0, 100)) for x in hundredths: the integer k with         *)
(* k <= clamp(x) < k + 1                                                   *)
TruncClamp100(x) ==
    LET clamped == IF x < 0 THEN 0 ELSE IF x > 10000 THEN 10000 ELSE x
    IN CHOOSE k \in 0..100 : 100 * k <= clamped /\ clamped < 100 * (k + 1)

(* C13: compute_positioning_score(u, t, s) is the integer truncation of    *)
(* clamp(70 - 70*u + 25*t + 15*s, 0, 100); u = 0.2, t = 0.5, s = 0.5 gives *)
(* 76.                                                                     *)
C13_PositioningFormula ==
    Called("compute_positioning_score") =>
        /\ ret = TruncClamp100(PositioningValue(args.untradeable_ratio, args.trade_success,
                                                args.survival_rate))
        /\ (args.untradeable_ratio = 20 /\ args.trade_success = 50
              /\ args.survival_rate = 50) => ret = 76

(* the scenario of the claim *)
C13_Witness ==
    /\ Called("compute_positioning_score")
    /\ args.untradeable_ratio = 20 /\ args.trade_success = 50 /\ args.survival_rate = 50
    /\ ret = 76

-----------------------------------------------------------------------------
(* timeline/builder.py and timeline/events.py.  A DataFrame is the         *)
(* sequence of its rows in iterrows() order; a missing or empty table is   *)
(* the empty sequence.                                                     *)

MaxKillRows == 2

MaxBombRows == 1

MaxBuilds == 2

(* kill rows of a demo of the trade specification *)
MaxTradeRows == 2

TRADE_WINDOW_MS == 3000

DEFAULT_TICKRATE == 64

DEFAULT_TOTAL_TICKS == 999999

NoneValue == "None"

(* _tick_to_ms, lines 59-62: int((delta_ticks / tickrate) * 1000); int()   *)
(* truncates towards zero.  Division by 64 or 128 and the product by 1000  *)
(* are exact in floats for the ticks of a demo.                            *)
tick_to_ms(rate, tick, round_start_tick) ==
    LET delta_ticks == tick - round_start_tick
    IN IF delta_ticks >= 0 THEN (delta_ticks * 1000) \div rate
       ELSE 0 - (((0 - delta_ticks) * 1000) \div rate)

(* team names in which 'CT' occurs after upper() *)
NamesWithCT == {"CT", "ct"}

(* 'CT' if 'CT' in name.upper() else 'T', lines 108, 125, 146 *)
side_of(team_name) == IF team_name \in NamesWithCT THEN "CT" ELSE "T"

(* TimelineEvent, events.py lines 45-88, with the defaults of the optional *)
(* fields the builder leaves alone                                         *)
TimelineEvent(tick, timestamp_ms, event, player, team, round) ==
    [tick |-> tick, timestamp_ms |-> timestamp_ms, event |-> event, player |-> player,
     team |-> team, round |-> round, victim |-> NoneValue, weapon |-> NoneValue,
     is_entry |-> FALSE, is_trade |-> FALSE, is_headshot |-> FALSE]

(* TimelineEvent.__lt__, events.py lines 95-97 *)
event_lt(a, b) == a.timestamp_ms < b.timestamp_ms

(* list.sort(): stable, ascending by __lt__; x goes after every element    *)
(* that is not greater than it                                             *)
RECURSIVE InsertAsc(_, _)
InsertAsc(x, sorted) ==
    IF sorted = <<>> THEN <<x>>
    ELSE LET last == sorted[Len(sorted)]
         IN IF event_lt(x, last)
            THEN Append(InsertAsc(x, SubSeq(sorted, 1, Len(sorted) - 1)), last)
            ELSE Append(sorted, x)

RECURSIVE SortAsc(_)
SortAsc(events) ==
    IF events = <<>> THEN <<>>
    ELSE InsertAsc(events[Len(events)], SortAsc(SubSeq(events, 1, Len(events) - 1)))

in_round(tick, round_start_tick, round_end_tick) ==
    ~(tick < round_start_tick \/ tick > round_end_tick)

(* _extract_kills, lines 90-97: a previous kill of this round whose victim *)
(* is the attacker, at most TRADE_WINDOW_MS before (or any time after)     *)
is_trade_kill(recent_kills, attacker, timestamp_ms) ==
    \E i \in 1..Len(recent_kills) :
        /\ recent_kills[i].victim = attacker
        /\ timestamp_ms - recent_kills[i].timestamp_ms <= TRADE_WINDOW_MS

(* _extract_kills, lines 102-150: the events of one kill row *)
kill_row_events(row, rate, round_num, round_start_tick, is_entry, is_trade) ==
    LET timestamp_ms == tick_to_ms(rate, row.tick, round_start_tick)
        kill_event ==
            [TimelineEvent(row.tick, timestamp_ms, IF is_entry THEN "ENTRY_KILL" ELSE "KILL",
                           row.attacker_name, side_of(row.attacker_team_name), round_num)
             EXCEPT !.victim = row.victim_name, !.weapon = row.weapon,
                    !.is_entry = is_entry, !.is_trade = is_trade,
                    !.is_headshot = row.headshot]
        death_event ==
            [TimelineEvent(row.tick, timestamp_ms, "DEATH", row.victim_name,
                           side_of(row.victim_team_name), round_num)
             EXCEPT !.victim = row.attacker_name]
        trade_event ==
            [TimelineEvent(row.tick, timestamp_ms, "TRADE", row.attacker_name,
                           side_of(row.attacker_team_name), round_num)
             EXCEPT !.victim = row.victim_name]
    IN <<kill_event, death_event>> \o (IF is_trade THEN <<trade_event>> ELSE <<>>)

(* _extract_kills, lines 64-152: the loop over the first n rows; the pair  *)
(* [events, recent_kills] after them                                       *)
RECURSIVE extract_kills_loop(_, _, _, _, _, _)
extract_kills_loop(kills, n, rate, round_num, round_start_tick, round_end_tick) ==
    IF n = 0 THEN [events |-> <<>>, recent_kills |-> <<>>]
    ELSE LET prev == extract_kills_loop(kills, n - 1, rate, round_num, round_start_tick,
                                        round_end_tick)
             row == kills[n]
             timestamp_ms == tick_to_ms(rate, row.tick, round_start_tick)
             is_trade == is_trade_kill(prev.recent_kills, row.attacker_name, timestamp_ms)
             is_entry == Len(prev.events) = 0
         IN IF ~in_round(row.tick, round_start_tick, round_end_tick) THEN prev
            ELSE [events |-> prev.events \o kill_row_events(row, rate, round_num,
                                                            round_start_tick, is_entry, is_trade),
                  recent_kills |-> Append(prev.recent_kills,
                                          [tick |-> row.tick, timestamp_ms |-> timestamp_ms,
                                           victim |-> row.victim_name,
                                           attacker |-> row.attacker_name])]

extract_kills(d, rate, round_num, round_start_tick, round_end_tick) ==
    extract_kills_loop(d.kills, Len(d.kills), rate, round_num, round_start_tick,
                       round_end_tick).events

(* _extract_bomb_events, lines 160-172 and 176-188: one table's events *)
RECURSIVE bomb_rows_events(_, _, _, _, _, _, _, _)
bomb_rows_events(rows, n, rate, round_num, round_start_tick, round_end_tick, event, team) ==
    IF n = 0 THEN <<>>
    ELSE LET prev == bomb_rows_events(rows, n - 1, rate, round_num, round_start_tick,
                                      round_end_tick, event, team)
             row == rows[n]
         IN IF ~in_round(row.tick, round_start_tick, round_end_tick) THEN prev
            ELSE Append(prev, TimelineEvent(row.tick,
                                            tick_to_ms(rate, row.tick, round_start_tick),
                                            event, row.player_name, team, round_num))

(* _extract_bomb_events, lines 154-190 *)
extract_bomb_events(d, rate, round_num, round_start_tick, round_end_tick) ==
    bomb_rows_events(d.plants, Len(d.plants), rate, round_num, round_start_tick,
                     round_end_tick, "PLANT", "T")
    \o bomb_rows_events(d.defuses, Len(d.defuses), rate, round_num, round_start_tick,
                        round_end_tick, "DEFUSE", "CT")

(* _get_round_boundaries, lines 192-212; has_rounds is false when the demo *)
(* has no rounds table                                                     *)
get_round_boundaries(d) ==
    IF d.has_rounds
    THEN [i \in 1..Len(d.rounds) |->
            [round |-> d.rounds[i].round_num, start_tick |-> d.rounds[i].freeze_end,
             end_tick |-> d.rounds[i].end_tick]]
    ELSE << [round |-> 0, start_tick |-> 0, end_tick |-> d.total_ticks] >>

round_start_event(boundary) ==
    TimelineEvent(boundary.start_tick, 0, "ROUND_START", "", "", boundary.round)

(* build, lines 243-245 without the sort *)
round_events_unsorted(d, rate, boundary) ==
    <<round_start_event(boundary)>>
    \o extract_kills(d, rate, boundary.round, boundary.start_tick, boundary.end_tick)
    \o extract_bomb_events(d, rate, boundary.round, boundary.start_tick, boundary.end_tick)

(* build, lines 228-245: the events of one round *)
round_events(d, rate, boundary) ==
    SortAsc(<<round_start_event(boundary)>>
            \o extract_kills(d, rate, boundary.round, boundary.start_tick, boundary.end_tick)
            \o extract_bomb_events(d, rate, boundary.round, boundary.start_tick,
                                   boundary.end_tick))

(* build, lines 247-252 *)
RoundTimeline(d, rate, boundary) ==
    [round |-> boundary.round, start_tick |-> boundary.start_tick,
     end_tick |-> boundary.end_tick, events |-> round_events(d, rate, boundary)]

-----------------------------------------------------------------------------
(* Inputs of TimelineBuilder: a ParsedDemo *)

SeqsUpTo(S, n) == UNION {[1..k -> S] : k \in 0..n}

(* tick 10 is the first round's freeze_end, 74 lies one second (at 64      *)
(* ticks a second) into it, 300 lies in the second round                   *)
KillTicks == {10, 74, 300}

(* tick 5 precedes the first round *)
BombTicks == {5, 74}

Duels ==
    {[attacker_name |-> "a", attacker_team_name |-> "CT", victim_name |-> "b",
      victim_team_name |-> "TERRORIST", weapon |-> "awp", headshot |-> FALSE],
     [attacker_name |-> "b", attacker_team_name |-> "TERRORIST", victim_name |-> "a",
      victim_team_name |-> "CT", weapon |-> "ak47", headshot |-> TRUE]}

TimelineKillRows ==
    {[tick |-> t, attacker_name |-> w.attacker_name,
      attacker_team_name |-> w.attacker_team_name, victim_name |-> w.victim_name,
      victim_team_name |-> w.victim_team_name, weapon |-> w.weapon,
      headshot |-> w.headshot] : t \in KillTicks, w \in Duels}

PlantRows == {[tick |-> t, player_name |-> "b"] : t \in BombTicks}

DefuseRows == {[tick |-> t, player_name |-> "a"] : t \in BombTicks}

FirstRound == [round_num |-> 0, freeze_end |-> 10, end_tick |-> 200]

SecondRound == [round_num |-> 1, freeze_end |-> 210, end_tick |-> 400]

(* no rounds table (with and without total_ticks), an empty one, one round *)
(* and two rounds                                                          *)
RoundTables ==
    {[has_rounds |-> FALSE, rounds |-> <<>>, total_ticks |-> DEFAULT_TOTAL_TICKS],
     [has_rounds |-> FALSE, rounds |-> <<>>, total_ticks |-> 100],
     [has_rounds |-> TRUE, rounds |-> <<>>, total_ticks |-> 400],
     [has_rounds |-> TRUE, rounds |-> <<FirstRound>>, total_ticks |-> 400],
     [has_rounds |-> TRUE, rounds |-> <<FirstRound, SecondRound>>, total_ticks |-> 400]}

TickRates == {DEFAULT_TICKRATE, 128}

TimelineDemos ==
    {[tickrate |-> r, has_rounds |-> rt.has_rounds, rounds |-> rt.rounds,
      total_ticks |-> rt.total_ticks, kills |-> k, plants |-> pl, defuses |-> df] :
        r \in TickRates, rt \in RoundTables, k \in SeqsUpTo(TimelineKillRows, MaxKillRows),
        pl \in SeqsUpTo(PlantRows, MaxBombRows), df \in SeqsUpTo(DefuseRows, MaxBombRows)}

-----------------------------------------------------------------------------
(* TimelineBuilder(parsed_demo), lines 48-57, and build(), lines 214-254 *)

InitTimeline ==
    /\ demo \in TimelineDemos
    /\ tickrate = demo.tickrate
    /\ round_timelines = <<>>
    /\ all_assignments = Pending
    /\ RoleClassifierIdle
    /\ ScoreEngineIdle

(* build appends to round_timelines: a second call repeats every round *)
Build ==
    LET boundaries == get_round_boundaries(demo)
    IN /\ Len(round_timelines) <= (MaxBuilds - 1) * Len(boundaries)
       /\ round_timelines' =
            round_timelines
            \o [i \in 1..Len(boundaries) |-> RoundTimeline(demo, tickrate, boundaries[i])]
       /\ UNCHANGED <<demo, tickrate, all_assignments>>
       /\ UNCHANGED roleVars
       /\ UNCHANGED scoreVars

NextTimeline == Build

SpecTimeline == InitTimeline /\ [][NextTimeline]_vars

-----------------------------------------------------------------------------
(* Demos for trade detection: two rounds at 64 ticks a second, no bomb     *)
(* events, kill rows in tick order among three players, a on CT, b and c   *)
(* on the T side.                                                          *)

(* ticks 10 and 410 are the freeze_end of the rounds; 74, 202 and 203 lie  *)
(* 1000, 3000 and 3015 ms into the first round, 420 lies in the second     *)
TradeTicks == {10, 74, 202, 203, 420}

TradeRounds ==
    << [round_num |-> 0, freeze_end |-> 10, end_tick |-> 400],
       [round_num |-> 1, freeze_end |-> 410, end_tick |-> 600] >>

TradeDuels ==
    {[attacker_name |-> "a", attacker_team_name |-> "CT", victim_name |-> "b",
      victim_team_name |-> "TERRORIST"],
     [attacker_name |-> "b", attacker_team_name |-> "TERRORIST", victim_name |-> "a",
      victim_team_name |-> "CT"],
     [attacker_name |-> "c", attacker_team_name |-> "TERRORIST", victim_name |-> "a",
      victim_team_name |-> "CT"],
     [attacker_name |-> "a", attacker_team_name |-> "CT", victim_name |-> "c",
      victim_team_name |-> "TERRORIST"]}

TradeKillRows ==
    {[tick |-> t, attacker_name |-> w.attacker_name,
      attacker_team_name |-> w.attacker_team_name, victim_name |-> w.victim_name,
      victim_team_name |-> w.victim_team_name, weapon |-> "ak47", headshot |-> FALSE] :
        t \in TradeTicks, w \in TradeDuels}

TradeDemos ==
    {[tickrate |-> DEFAULT_TICKRATE, has_rounds |-> TRUE, rounds |-> TradeRounds,
      total_ticks |-> 600, kills |-> k, plants |-> <<>>, defuses |-> <<>>] :
        k \in {rows \in SeqsUpTo(TradeKillRows, MaxTradeRows) :
                 \A i \in 1..(Len(rows) - 1) : rows[i].tick <= rows[i + 1].tick}}

InitTrades ==
    /\ demo \in TradeDemos
    /\ tickrate = demo.tickrate
    /\ round_timelines = <<>>
    /\ all_assignments = Pending
    /\ RoleClassifierIdle
    /\ ScoreEngineIdle

SpecTrades == InitTrades /\ [][NextTimeline]_vars

-----------------------------------------------------------------------------
(* Properties of TimelineBuilder.build, checked under SpecTimeline *)

NonDecreasing(events) ==
    \A i \in 1..(Len(events) - 1) : events[i].timestamp_ms <= events[i + 1].timestamp_ms

(* C14: in every RoundTimeline build produces, the events are in           *)
(* non-decreasing timestamp_ms order and the first event is the            *)
(* ROUND_START marker, with timestamp 0.                                   *)
C14_TimelineSorted ==
    \A i \in 1..Len(round_timelines) :
        LET events == round_timelines[i].events
        IN /\ NonDecreasing(events)
           /\ Len(events) >= 1
           /\ events[1].event = "ROUND_START"
           /\ events[1].timestamp_ms = 0

(* a round whose kill rows come latest first, with a kill and a plant at   *)
(* timestamp 0 and after it                                                *)
C14_Witness ==
    /\ Len(demo.kills) = 2
    /\ demo.kills[1].tick > demo.kills[2].tick
    /\ \E i \in 1..Len(round_timelines) :
        LET events == round_timelines[i].events
        IN /\ Len(events) >= 6
           /\ events[1].event = "ROUND_START"
           /\ events[2].timestamp_ms = 0
           /\ \E k \in 1..Len(events) : events[k].event = "PLANT"
           /\ events[Len(events)].timestamp_ms > 0

-----------------------------------------------------------------------------
(* roles/classifier.py: the per-round classifier.  Scores and confidences  *)
(* are carried in hundredths, kill_timing and avg_teammate_dist in tenths  *)
(* (the code rounds both to one decimal).  A position is [x, y].           *)

MaxDemoKills == 2

LURK_DISTANCE_THRESHOLD == 1800

MIN_EVIDENCE_FOR_CONFIDENCE == 2

(* MIN_SCORE_THRESHOLD = 0.25 *)
MIN_SCORE_THRESHOLD == 25

(* (tick - prev_tick) <= 192, lines 275 and 280 *)
TRADE_WINDOW_TICKS == 192

(* the divisor of kill_timing, line 299 *)
TIMING_TICKS_PER_SECOND == 64

(* RoleType, lines 30-37, in the insertion order of role_scores *)
RoleTypes == <<"ENTRY", "LURK", "ANCHOR", "ROTATOR", "SUPPORT">>

Abs(x) == IF x >= 0 THEN x ELSE 0 - x

(* round(n / d, 0) for n >= 0, d > 0: round half to even *)
round_half_even(n, d) ==
    LET q == n \div d
        r == n % d
    IN IF 2 * r > d \/ (2 * r = d /\ q % 2 = 1) THEN q + 1 ELSE q

(* _distance, lines 63-65, for two positions on a line parallel to an axis *)
distance(p, q) == IF p.y = q.y THEN Abs(q.x - p.x) ELSE Abs(q.y - p.y)

(* team names in which 'CT' or 'COUNTER' occurs after upper() *)
NamesWithCounter == {"CT", "ct", "COUNTER-TERRORIST"}

(* other team names in which 'T' occurs after upper() *)
NamesWithT == {"T", "t", "TERRORIST"}

(* _normalize_team, lines 157-164 *)
normalize_team(team_str) ==
    IF team_str \in NamesWithCounter THEN "CT"
    ELSE IF team_str \in NamesWithT THEN "T"
    ELSE "UNKNOWN"

has_player(player_teams, name) ==
    \E i \in 1..Len(player_teams) : player_teams[i].player = name

(* player_teams.get(name) *)
team_get(player_teams, name) ==
    IF has_player(player_teams, name)
    THEN player_teams[CHOOSE i \in 1..Len(player_teams) : player_teams[i].player = name].team
    ELSE NoneValue

(* the team stored on every occurrence: one entry per row that names the   *)
(* player                                                                  *)
add_player_team_every_row(player_teams, name, team_str) ==
    IF name = "" THEN player_teams
    ELSE Append(player_teams, [player |-> name, team |-> normalize_team(team_str)])

(* lines 116-119: first occurrence wins *)
add_player_team(player_teams, name, team_str) ==
    IF name = "" \/ has_player(player_teams, name) THEN player_teams
    ELSE Append(player_teams, [player |-> name, team |-> normalize_team(team_str)])

(* classify_round, lines 101-119: player_teams after the first n rows, a   *)
(* dict in insertion order                                                 *)
RECURSIVE build_player_teams(_, _)
build_player_teams(round_kills, n) ==
    IF n = 0 THEN <<>>
    ELSE LET kill == round_kills[n]
             prev == build_player_teams(round_kills, n - 1)
         IN add_player_team(add_player_team(prev, kill.attacker_name,
                                            kill.attacker_team_name),
                            kill.user_name, kill.user_team_name)

(* classify_round, lines 121-129: player_positions[name] after n rows *)
RECURSIVE positions_of(_, _, _)
positions_of(round_kills, n, name) ==
    IF n = 0 THEN <<>>
    ELSE LET kill == round_kills[n]
             prev == positions_of(round_kills, n - 1, name)
             with_attacker == IF kill.attacker_name = name /\ name # ""
                              THEN Append(prev, kill.attacker_pos) ELSE prev
         IN IF kill.user_name = name /\ name # ""
            THEN Append(with_attacker, kill.user_pos) ELSE with_attacker

SumSeq(f, n) ==
    LET RECURSIVE Sum(_)
        Sum(k) == IF k = 0 THEN 0 ELSE Sum(k - 1) + f[k]
    IN Sum(n)

(* _calculate_avg_teammate_distance, lines 166-203, rounded to one decimal *)
(* at line 234: the result in tenths                                       *)
avg_teammate_distance(round_kills, player, player_teams) ==
    LET n == Len(round_kills)
        player_pos == positions_of(round_kills, n, player)
        player_team == team_get(player_teams, player)
        teammates == {i \in 1..Len(player_teams) :
                        /\ player_teams[i].team = player_team
                        /\ player_teams[i].player # player}
        first_pos(i) == positions_of(round_kills, n, player_teams[i].player)[1]
        tm == PidsWhere(Len(player_teams), teammates)
        sample(k) == SumSeq([j \in 1..Len(tm) |-> distance(player_pos[k], first_pos(tm[j]))],
                            Len(tm))
        total_dist == SumSeq([k \in 1..Len(player_pos) |-> sample(k)], Len(player_pos))
        count == Len(player_pos) * Len(tm)
    IN IF ~has_player(player_teams, player) \/ Len(player_pos) = 0 \/ Len(tm) = 0 THEN 0
       ELSE round_half_even(10 * total_dist, count)

(* _classify_player, lines 263-288: the trade loop over the first n rows;  *)
(* evidence counts every hit                                               *)
RECURSIVE trade_activity(_, _, _, _, _)
trade_activity(round_kills, n, player, team, player_teams) ==
    IF n = 0 THEN [trade_given |-> 0, trade_taken |-> 0, evidence |-> 0]
    ELSE LET prev == trade_activity(round_kills, n - 1, player, team, player_teams)
             kill == round_kills[n]
             prev_victim == IF n = 1 THEN NoneValue ELSE round_kills[n - 1].user_name
             prev_tick == IF n = 1 THEN 0 ELSE round_kills[n - 1].tick
             in_window == kill.tick - prev_tick <= TRADE_WINDOW_TICKS
             given == n > 1 /\ prev_victim = player /\ in_window
             taken == /\ n > 1
                      /\ kill.attacker_name = player
                      /\ prev_victim # ""
                      /\ in_window
                      /\ team_get(player_teams, prev_victim) = team
         IN [trade_given |-> IF given THEN 1 ELSE prev.trade_given,
             trade_taken |-> IF taken THEN 1 ELSE prev.trade_taken,
             evidence |-> prev.evidence + (IF given THEN 1 ELSE 0) + (IF taken THEN 1 ELSE 0)]

(* _classify_player, lines 290-299: kill_timing in tenths of a second *)
kill_timing(round_kills, player) ==
    LET mine == PidsWhere(Len(round_kills),
                          {i \in 1..Len(round_kills) : round_kills[i].attacker_name = player})
        ticks == SumSeq([k \in 1..Len(mine) |-> round_kills[mine[k]].tick], Len(mine))
        first_tick == round_kills[1].tick
    IN IF Len(mine) = 0 THEN 0
       ELSE round_half_even(10 * (ticks - Len(mine) * first_tick),
                            TIMING_TICKS_PER_SECOND * Len(mine))

(* _classify_player, lines 219-299: metrics and evidence_count *)
player_metrics(round_kills, player, team, player_teams) ==
    LET first_kill == round_kills[1]
        entry_kill == IF first_kill.attacker_name = player THEN 1 ELSE 0
        first_death == IF first_kill.user_name = player THEN 1 ELSE 0
        total_kills == Cardinality({i \in 1..Len(round_kills) :
                                      round_kills[i].attacker_name = player})
        total_deaths == Cardinality({i \in 1..Len(round_kills) :
                                       round_kills[i].user_name = player})
        trades == trade_activity(round_kills, Len(round_kills), player, team, player_teams)
    IN [entry_kill |-> entry_kill,
        first_death |-> first_death,
        kill_timing |-> kill_timing(round_kills, player),
        trade_given |-> trades.trade_given,
        trade_taken |-> trades.trade_taken,
        total_kills |-> total_kills,
        total_deaths |-> total_deaths,
        avg_teammate_dist |-> avg_teammate_distance(round_kills, player, player_teams),
        evidence_count |-> entry_kill + first_death
                           + (IF total_kills > 0 THEN 1 ELSE 0)
                           + (IF total_deaths > 0 THEN 1 ELSE 0)
                           + trades.evidence]

(* _classify_player, lines 301-349: role_scores in hundredths *)
role_scores(m, team) ==
    LET is_far == m.avg_teammate_dist > 10 * LURK_DISTANCE_THRESHOLD
        is_late == m.kill_timing > 80
        is_isolated == m.trade_given = 0 /\ m.total_deaths > 0
        near(limit) == m.avg_teammate_dist < 10 * limit /\ m.avg_teammate_dist > 0
    IN [r \in {"ENTRY", "LURK", "ANCHOR", "ROTATOR", "SUPPORT"} |->
        CASE r = "ENTRY" ->
                (IF m.entry_kill > 0 THEN 70 ELSE 0)
                + (IF m.first_death > 0 /\ team = "T" THEN 20 ELSE 0)
                + (IF m.kill_timing < 30 /\ m.total_kills > 0 THEN 20 ELSE 0)
          [] r = "LURK" ->
                IF is_far /\ is_late THEN 60
                ELSE IF is_far /\ is_isolated THEN 40
                ELSE IF is_late /\ is_isolated THEN 30
                ELSE 0
          [] r = "SUPPORT" ->
                (IF m.trade_taken > 0 THEN 60 ELSE 0) + (IF near(600) THEN 15 ELSE 0)
          [] r = "ANCHOR" ->
                IF team # "CT" THEN 0
                ELSE (IF m.first_death = 0 /\ m.entry_kill = 0 /\ m.total_kills > 0 THEN 40
                      ELSE IF m.first_death = 0 /\ m.total_deaths = 0 THEN 30
                      ELSE 0)
                     + (IF near(800) THEN 20 ELSE 0)
          [] r = "ROTATOR" ->
                (IF m.trade_taken > 0 /\ m.kill_timing > 30 THEN 40 ELSE 0)
                + (IF team = "CT" /\ m.total_kills > 0 /\ m.kill_timing > 50 THEN 20 ELSE 0)]

(* max(role_scores, key=role_scores.get): the first role of the dict with  *)
(* the largest score                                                       *)
best_role_of(scores) ==
    RoleTypes[CHOOSE i \in 1..Len(RoleTypes) :
                /\ \A j \in 1..Len(RoleTypes) : scores[RoleTypes[j]] <= scores[RoleTypes[i]]
                /\ \A j \in 1..(i - 1) : scores[RoleTypes[j]] < scores[RoleTypes[i]]]

(* sorted(role_scores.values(), reverse=True)[1] *)
second_score(scores) ==
    LET best == CHOOSE i \in 1..Len(RoleTypes) :
                    \A j \in 1..Len(RoleTypes) : scores[RoleTypes[j]] <= scores[RoleTypes[i]]
        rest == (1..Len(RoleTypes)) \ {best}
    IN scores[RoleTypes[CHOOSE i \in rest :
                          \A j \in rest : scores[RoleTypes[j]] <= scores[RoleTypes[i]]]]

(* lines 355-367: the role of a player whose best score is under the       *)
(* threshold                                                               *)
fallback_role(m, team) ==
    IF team = "CT" THEN (IF m.total_deaths = 0 THEN "ANCHOR" ELSE "SUPPORT")
    ELSE (IF m.first_death > 0 THEN "ENTRY" ELSE "SUPPORT")

(* lines 373-382: confidence before the final clamp; top_score * 0.5 is    *)
(* rounded to hundredths at line 384                                       *)
raw_confidence(top_score, second, evidence_count) ==
    IF evidence_count < MIN_EVIDENCE_FOR_CONFIDENCE THEN round_half_even(top_score, 2)
    ELSE IF second > 0 THEN Min(100, 50 + (top_score - second))
    ELSE Min(100, top_score)

(* line 384: round(max(0.0, min(1.0, confidence)), 2) *)
clamp_confidence(confidence) == Max(0, Min(100, confidence))

(* _classify_player, lines 205-386, and the RoleAssignment of lines        *)
(* 144-153                                                                 *)
classify_player(round_kills, round_num, player, team, player_teams) ==
    LET m == player_metrics(round_kills, player, team, player_teams)
        scores == role_scores(m, team)
        best_role == best_role_of(scores)
        top_score == scores[best_role]
        metrics == [k \in DOMAIN m \ {"evidence_count"} |-> m[k]]
        low == top_score < MIN_SCORE_THRESHOLD
    IN [round |-> round_num, player |-> player, team |-> team,
        role |-> IF low THEN fallback_role(m, team) ELSE best_role,
        confidence |-> IF low THEN 30
                       ELSE clamp_confidence(raw_confidence(top_score, second_score(scores),
                                                           m.evidence_count)),
        raw_score |-> IF low THEN 25 ELSE top_score,
        evidence_count |-> m.evidence_count,
        metrics |-> metrics]

(* classify_round, lines 78-155, on the round's rows in tick order *)
classify_round(round_kills, round_num) ==
    LET player_teams == build_player_teams(round_kills, Len(round_kills))
    IN [i \in 1..Len(player_teams) |->
            classify_player(round_kills, round_num, player_teams[i].player,
                            player_teams[i].team, player_teams)]

(* the player names of the inputs in the order of Python's str comparison *)
NameOrder == <<"a", "b", "c">>

name_rank(name) == CHOOSE i \in 1..Len(NameOrder) : NameOrder[i] = name

(* line 412: the key (a.round, a.player), compared as tuples *)
key_lt(a, b) ==
    \/ a.round < b.round
    \/ a.round = b.round /\ name_rank(a.player) < name_rank(b.player)

(* list.sort(key=...): stable, ascending *)
RECURSIVE InsertByKey(_, _)
InsertByKey(x, sorted) ==
    IF sorted = <<>> THEN <<x>>
    ELSE LET last == sorted[Len(sorted)]
         IN IF key_lt(x, last)
            THEN Append(InsertByKey(x, SubSeq(sorted, 1, Len(sorted) - 1)), last)
            ELSE Append(sorted, x)

RECURSIVE SortByKey(_)
SortByKey(s) ==
    IF s = <<>> THEN <<>>
    ELSE InsertByKey(s[Len(s)], SortByKey(SubSeq(s, 1, Len(s) - 1)))

(* kills[kills[round_col] == round_num].sort_values('tick'), line 94.      *)
(* sort_values uses an unstable sort: rows with equal ticks come in any    *)
(* order.  `order` is a permutation of the row numbers in tick order.      *)
TickOrders(kills) ==
    {order \in [1..Len(kills) -> 1..Len(kills)] :
        /\ \A i, j \in 1..Len(kills) : i # j => order[i] # order[j]
        /\ \A i \in 1..(Len(kills) - 1) : kills[order[i]].tick <= kills[order[i + 1]].tick}

round_kills_of(kills, order, round_num) ==
    LET keep == PidsWhere(Len(kills), {i \in 1..Len(kills) : kills[order[i]].round = round_num})
    IN [k \in 1..Len(keep) |-> kills[order[keep[k]]]]

(* sorted(kills[round_col].unique()), line 405: the first n round numbers  *)
RECURSIVE sorted_rounds(_, _)
sorted_rounds(rounds, n) ==
    IF n = 0 \/ rounds = {} THEN <<>>
    ELSE LET least == CHOOSE r \in rounds : \A q \in rounds : r <= q
         IN <<least>> \o sorted_rounds(rounds \ {least}, n - 1)

RECURSIVE ConcatAll(_, _)
ConcatAll(seqs, n) == IF n = 0 THEN <<>> ELSE ConcatAll(seqs, n - 1) \o seqs[n]

(* classify_roles, lines 389-414 *)
classify_roles(d, order) ==
    IF Len(d.kills) = 0 \/ d.round_col = NoneValue THEN <<>>
    ELSE LET rounds == {d.kills[i].round : i \in 1..Len(d.kills)}
             round_nums == sorted_rounds(rounds, Cardinality(rounds))
             per_round == [k \in 1..Len(round_nums) |->
                             classify_round(round_kills_of(d.kills, order, round_nums[k]),
                                            round_nums[k])]
         IN SortByKey(ConcatAll(per_round, Len(per_round)))

-----------------------------------------------------------------------------
(* Inputs of roles.classify_roles: the kills table of a ParsedDemo *)

RoundNumbers == {1, 2}

(* second kills inside the trade window, after it, and 9 seconds late *)
RoleKillTicks == {0, 192, 576}

Pos(x) == [x |-> x, y |-> 0]

(* a and c are team-mates; a also occurs under the other team's name, and  *)
(* dies once without an attacker                                           *)
RoleDuels ==
    {[attacker_name |-> "a", attacker_team_name |-> "CT", attacker_pos |-> Pos(0),
      user_name |-> "b", user_team_name |-> "TERRORIST", user_pos |-> Pos(100)],
     [attacker_name |-> "b", attacker_team_name |-> "TERRORIST", attacker_pos |-> Pos(100),
      user_name |-> "a", user_team_name |-> "CT", user_pos |-> Pos(0)],
     [attacker_name |-> "c", attacker_team_name |-> "CT", attacker_pos |-> Pos(2000),
      user_name |-> "b", user_team_name |-> "TERRORIST", user_pos |-> Pos(100)],
     [attacker_name |-> "b", attacker_team_name |-> "TERRORIST", attacker_pos |-> Pos(100),
      user_name |-> "c", user_team_name |-> "CT", user_pos |-> Pos(500)],
     [attacker_name |-> "a", attacker_team_name |-> "TERRORIST", attacker_pos |-> Pos(0),
      user_name |-> "c", user_team_name |-> "CT", user_pos |-> Pos(700)],
     [attacker_name |-> "", attacker_team_name |-> "", attacker_pos |-> Pos(0),
      user_name |-> "a", user_team_name |-> "", user_pos |-> Pos(0)]}

RoleKillRows ==
    {[round |-> r, tick |-> t, attacker_name |-> w.attacker_name,
      attacker_team_name |-> w.attacker_team_name, attacker_pos |-> w.attacker_pos,
      user_name |-> w.user_name, user_team_name |-> w.user_team_name,
      user_pos |-> w.user_pos] : r \in RoundNumbers, t \in RoleKillTicks, w \in RoleDuels}

(* the column that holds the round number ('round_num' is read the same    *)
(* way), NoneValue when there is none                                      *)
RoundColumns == {"total_rounds_played", NoneValue}

RoleDemos ==
    {[round_col |-> c, kills |-> k] :
        c \in RoundColumns, k \in SeqsUpTo(RoleKillRows, MaxDemoKills)}

-----------------------------------------------------------------------------
(* The call roles.classify_roles(parsed_demo) *)

InitRounds ==
    /\ demo \in RoleDemos
    /\ tickrate = 0
    /\ round_timelines = <<>>
    /\ all_assignments = Pending
    /\ RoleClassifierIdle
    /\ ScoreEngineIdle

ClassifyDemo ==
    /\ all_assignments = Pending
    /\ \E order \in TickOrders(demo.kills) :
        all_assignments' = classify_roles(demo, order)
    /\ UNCHANGED <<demo, tickrate, round_timelines>>
    /\ UNCHANGED roleVars
    /\ UNCHANGED scoreVars

NextRounds == ClassifyDemo

SpecRounds == InitRounds /\ [][NextRounds]_vars

-----------------------------------------------------------------------------
(* Properties of roles.classify_roles, checked under SpecRounds *)

DemoClassified == all_assignments # Pending

(* C15: the assignments classify_roles(parsed_demo) returns are sorted by  *)
(* (round, player), hold at most one assignment per (round, player) pair,  *)
(* and every confidence lies in [0.0, 1.0].                                *)
C15_AssignmentsSortedUnique ==
    DemoClassified =>
        /\ \A i \in 1..(Len(all_assignments) - 1) :
              ~key_lt(all_assignments[i + 1], all_assignments[i])
        /\ \A i, j \in 1..Len(all_assignments) :
              (/\ all_assignments[i].round = all_assignments[j].round
               /\ all_assignments[i].player = all_assignments[j].player) => i = j
        /\ \A i \in 1..Len(all_assignments) :
              all_assignments[i].confidence \in 0..100

(* a round in which a kills first under one team name and then under the   *)
(* other: a is assigned once, and c, met before b, is listed after b       *)
C15_Witness ==
    /\ DemoClassified
    /\ Len(demo.kills) = 2
    /\ demo.kills[1].round = demo.kills[2].round
    /\ demo.kills[1].tick < demo.kills[2].tick
    /\ demo.kills[1].attacker_name = "a" /\ demo.kills[2].attacker_name = "a"
    /\ demo.kills[1].attacker_team_name # demo.kills[2].attacker_team_name
    /\ demo.kills[1].user_name = "c" /\ demo.kills[2].user_name = "b"
    /\ Len(all_assignments) = 3
    /\ all_assignments[1].player = "a"
    /\ all_assignments[2].player = "b"
    /\ all_assignments[3].player = "c"

-----------------------------------------------------------------------------
(* Trade detection of TimelineBuilder, checked under SpecTrades *)

IsKillEvent(e) == e.event \in {"KILL", "ENTRY_KILL"}

(* the side of the victim of kill event i, read from its DEATH event *)
VictimSide(events, i) ==
    LET d == CHOOSE d \in 1..Len(events) :
                /\ events[d].event = "DEATH"
                /\ events[d].tick = events[i].tick
                /\ events[d].player = events[i].victim
                /\ events[d].victim = events[i].player
    IN events[d].team

(* the victim of kill j had killed a teammate of its attacker at most      *)
(* 3000 ms earlier in the same round                                       *)
AvengesTeammate(events, j) ==
    \E i \in 1..(j - 1) :
        /\ IsKillEvent(events[i])
        /\ events[i].player = events[j].victim
        /\ events[i].victim # events[j].player
        /\ VictimSide(events, i) = events[j].team
        /\ events[j].timestamp_ms - events[i].timestamp_ms <= 3000

HasTradeEvent(events, j) ==
    \E t \in 1..Len(events) :
        /\ t > j
        /\ events[t].event = "TRADE"
        /\ events[t].tick = events[j].tick
        /\ events[t].player = events[j].player
        /\ events[t].victim = events[j].victim

(* C30: TimelineBuilder flags a kill as a trade, and adds a TRADE event    *)
(* for the attacker, exactly when the victim of the kill had killed a      *)
(* teammate of the attacker at most 3000 ms earlier in the same round.     *)
C30_TradeAvengesTeammate ==
    \A r \in 1..Len(round_timelines) :
        LET events == round_timelines[r].events
        IN \A j \in 1..Len(events) :
            IsKillEvent(events[j]) =>
                /\ events[j].is_trade <=> AvengesTeammate(events, j)
                /\ events[j].is_trade <=> HasTradeEvent(events, j)

=============================================================================
